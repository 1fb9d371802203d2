----------------------------- MODULE ChatsProofs ------------------------------
(***************************************************************************)
(* Proofs about what is said and to whom: chats, their log and the two     *)
(* files of the memory, for any chats and any number of workers; the cloud *)
(* back ends, for any calls; and the choice of a model, for any models.    *)
(***************************************************************************)
EXTENDS Chats, FilterTheorems, TLAPS

----------------------------------------------------------------------------
(***************************************************************************)
(* Chats, their log and the two files.                                     *)
(***************************************************************************)

\* Where chats are: those that wait are in the queue once, the workers are not more
\* than there are, and the mobile chat under way holds the event loop.
WhereOK ==
    /\ pc \in [Chats -> InThread \cup {"idle", "queued", "reply", "failed", "done", "lost"}]
    /\ queue \in Seq(Browser) /\ IsInjective(queue)
    /\ ToSet(queue) = {c \in Browser : pc[c] = "queued"}
    /\ IsFiniteSet(Running) /\ Cardinality(Running) <= Workers
    /\ loop \in Mobile \cup {NoChat}
    /\ \A c \in Mobile : loop = c <=> pc[c] \in InThread \cup {"reply", "failed"}

\* What the files hold, what the cache and the chats have of them.
FilesOK ==
    /\ told \in [Chats -> Names \cup {NoName}]
    /\ profile \in Names \cup {NoName}
    /\ hot \in HotFile
    /\ cache \in HotFile \cup {NoContent}
    /\ valid \in BOOLEAN /\ torn \in BOOLEAN
    /\ base \in [Chats -> HotFile \cup {NoContent}]
    /\ last \in Names \cup {NoName}
    /\ Read = hot
    /\ \A c \in Chats : IF pc[c] = "hot" THEN base[c] \in HotFile ELSE base[c] = NoContent
    /\ \A c \in Updating : told[c] \in Names

\* As long as the files are not torn, one chat at most updates them, and what it
\* writes to the second file is what it read there and wrote to the first one.
Whole ==
    /\ \A c, d \in Updating : c = d
    /\ Updating = {} => profile = last /\ hot.name = last
    /\ \A c \in Chats : pc[c] = "hot" => base[c] = hot /\ profile = told[c]

UpdateOK == ~torn => Whole

\* LogIsExchanges at one entry of a log l, when the chats of w were not answered by a text.
FollowedAt(l, i) ==
    i < Len(l) /\ l[i + 1] \in {<<"agent", l[i][2]>>, <<"error", l[i][2]>>}

PairedAt(l, w, i) ==
    IF l[i][1] = "user"
    THEN FollowedAt(l, i) <=> ~(l[i][2] \in Browser /\ l[i][2] \in w)
    ELSE i > 1 /\ l[i - 1] = <<"user", l[i][2]>>

Paired(l, w) == \A i \in 1 .. Len(l) : PairedAt(l, w, i)

\* What is logged is of chats that are done: nothing more comes of them.
LogOK ==
    /\ agent \in Chats \cup {NoChat} /\ wordless \subseteq Chats
    /\ log \in Seq(Roles \X Chats)
    /\ \A i \in 1 .. Len(log) : pc[log[i][2]] = "done"
    /\ Paired(log, wordless)

IInv == WhereOK /\ FilesOK /\ UpdateOK /\ LogOK

----------------------------------------------------------------------------
LEMMA Contents ==
    /\ NoContent \notin HotFile /\ NoName \notin Names
    /\ \A h \in HotFile : h.rest \in 0 .. MaxEdits /\ h.name \in Names \cup {NoName}
BY ChatAssumption DEF NoContent, HotFile

LEMMA InitChats == Init => IInv
<1> SUFFICES ASSUME Init PROVE IInv
  OBVIOUS
<1>1. WhereOK
  <2>1. Running = {}
    BY DEF Init, Running, InThread, Chats
  <2>2. queue = <<>> /\ ToSet(queue) = {} /\ IsInjective(queue)
    BY DEF Init, ToSet, IsInjective
  <2>3. {c \in Browser : pc[c] = "queued"} = {}
    BY DEF Init, Chats
  <2>4. \A c \in Mobile : loop = c <=> pc[c] \in InThread \cup {"reply", "failed"}
    BY ChatAssumption DEF Init, Chats, InThread
  <2> QED
    BY <2>1, <2>2, <2>3, <2>4, FS_EmptySet, ChatAssumption DEF Init, WhereOK
<1>2. FilesOK
  <2>1. hot = [name |-> NoName, rest |-> 0] /\ hot \in HotFile
    BY ChatAssumption DEF Init, HotFile
  <2>2. Updating = {} /\ Read = hot
    BY DEF Init, Updating, Read
  <2> QED
    BY <2>1, <2>2 DEF Init, FilesOK
<1>3. UpdateOK
  BY DEF Init, UpdateOK, Whole, Updating
<1>4. LogOK
  BY DEF Init, LogOK, Paired
<1> QED
  BY <1>1, <1>2, <1>3, <1>4 DEF IInv

----------------------------------------------------------------------------
(* Where chats are. *)
\* A chat goes on in its thread.
LEMMA GoesOnWhere ==
    ASSUME WhereOK, NEW c \in Chats, pc[c] \in InThread,
           NEW p \in InThread \cup {"reply", "failed"}, Goto(c, p), UNCHANGED <<queue, loop>>
    PROVE  WhereOK'
<1>1. pc' = [pc EXCEPT ![c] = p]
  BY DEF Goto
<1>2. ToSet(queue') = {d \in Browser : pc'[d] = "queued"}
  BY <1>1 DEF WhereOK, InThread, Chats
<1>3. Running' \in SUBSET (Running \cup {c}) /\ (c \in Browser => c \in Running)
      /\ (c \notin Browser => Running' = Running)
  BY <1>1 DEF WhereOK, Running, Chats
<1>4. Running' \in SUBSET Running
  BY <1>3
<1>5. IsFiniteSet(Running') /\ Cardinality(Running') <= Workers
  <2>1. IsFiniteSet(Running') /\ Cardinality(Running') <= Cardinality(Running)
    BY <1>4, FS_Subset DEF WhereOK
  <2>2. Cardinality(Running) \in Nat /\ Cardinality(Running') \in Nat
    BY <2>1, FS_CardinalityType DEF WhereOK
  <2> QED
    BY <2>1, <2>2, ChatAssumption DEF WhereOK
<1>6. \A d \in Mobile : loop' = d <=> pc'[d] \in InThread \cup {"reply", "failed"}
  BY <1>1 DEF WhereOK, Chats
<1> QED
  BY <1>1, <1>2, <1>5, <1>6 DEF WhereOK

\* Who does not run does not count.
LEMMA RunningShrinks ==
    ASSUME WhereOK, Running' \subseteq Running
    PROVE  IsFiniteSet(Running') /\ Cardinality(Running') <= Workers
<1>1. IsFiniteSet(Running') /\ Cardinality(Running') <= Cardinality(Running)
  BY FS_Subset DEF WhereOK
<1>2. Cardinality(Running) \in Nat /\ Cardinality(Running') \in Nat
  BY <1>1, FS_CardinalityType DEF WhereOK
<1> QED
  BY <1>1, <1>2, ChatAssumption DEF WhereOK

LEMMA PostBrowserWhere == ASSUME WhereOK, NEW c \in Browser, PostBrowser(c) PROVE WhereOK'
<1>1. pc' = [pc EXCEPT ![c] = "queued"] /\ queue' = Append(queue, c) /\ pc[c] = "idle" /\ loop' = loop
  BY DEF PostBrowser, Goto
<1>2. queue' \in Seq(Browser) /\ Len(queue') = Len(queue) + 1 /\ queue'[Len(queue) + 1] = c
      /\ \A i \in 1 .. Len(queue) : queue'[i] = queue[i]
  BY <1>1 DEF WhereOK
<1>3. \A i \in 1 .. Len(queue) : queue[i] # c
  <2>1. \A i \in 1 .. Len(queue) : queue[i] \in ToSet(queue)
    BY DEF WhereOK, ToSet
  <2> QED
    BY <1>1, <2>1 DEF WhereOK
<1>4. IsInjective(queue')
  BY <1>2, <1>3 DEF WhereOK, IsInjective
<1>5. ToSet(queue') = ToSet(queue) \cup {c}
  BY <1>2 DEF WhereOK, ToSet
<1>6. {d \in Browser : pc'[d] = "queued"} = {d \in Browser : pc[d] = "queued"} \cup {c}
  BY <1>1 DEF WhereOK, Chats
<1>7. Running' \subseteq Running
  BY <1>1 DEF WhereOK, Running, InThread, Chats
<1>8. \A d \in Mobile : loop' = d <=> pc'[d] \in InThread \cup {"reply", "failed"}
  BY <1>1, ChatAssumption DEF WhereOK, Chats
<1> QED
  BY <1>1, <1>2, <1>4, <1>5, <1>6, <1>7, <1>8, RunningShrinks DEF WhereOK

LEMMA StartWorkerWhere == ASSUME WhereOK, StartWorker PROVE WhereOK'
<1> DEFINE c == Head(queue)
<1>1. /\ queue \in Seq(Browser) /\ queue # <<>> /\ c \in Browser /\ c = queue[1]
      /\ pc' = [pc EXCEPT ![c] = "start"] /\ queue' = Tail(queue) /\ loop' = loop
      /\ Cardinality(Running) < Workers
  BY DEF StartWorker, Goto, WhereOK
<1>2. queue' \in Seq(Browser) /\ Len(queue') = Len(queue) - 1 /\ Len(queue) \in Nat \ {0}
      /\ \A i \in 1 .. Len(queue) - 1 : queue'[i] = queue[i + 1]
  BY <1>1
<1>3. \A i \in 2 .. Len(queue) : queue[i] # c
  BY <1>1, <1>2 DEF WhereOK, IsInjective
<1>4. IsInjective(queue')
  BY <1>1, <1>2 DEF WhereOK, IsInjective
<1>5. ToSet(queue') = ToSet(queue) \ {c}
  <2>1. \A d \in ToSet(queue') : d \in ToSet(queue) /\ d # c
    BY <1>1, <1>2, <1>3 DEF ToSet
  <2>2. \A d \in ToSet(queue) : d # c => d \in ToSet(queue')
    <3> SUFFICES ASSUME NEW i \in 1 .. Len(queue), queue[i] # c PROVE queue[i] \in ToSet(queue')
      BY <1>1 DEF ToSet
    <3>1. i - 1 \in 1 .. Len(queue') /\ queue'[i - 1] = queue[i]
      BY <1>1, <1>2
    <3> QED
      BY <1>2, <3>1 DEF ToSet
  <2> QED
    BY <2>1, <2>2
<1>6. c \in Chats /\ pc[c] = "queued"
  <2>1. c \in ToSet(queue)
    BY <1>1, <1>2 DEF ToSet
  <2> QED
    BY <2>1 DEF WhereOK, Chats
<1> HIDE DEF c
<1>7. {d \in Browser : pc'[d] = "queued"} = {d \in Browser : pc[d] = "queued"} \ {c}
  BY <1>1, <1>6 DEF WhereOK, Chats
<1>8. Running' = Running \cup {c}
  BY <1>1, <1>6 DEF WhereOK, Running, InThread, Chats
<1>9. IsFiniteSet(Running') /\ Cardinality(Running') <= Workers
  <2>1. IsFiniteSet(Running') /\ Cardinality(Running') <= Cardinality(Running) + 1
    <3>1. Cardinality(Running) \in Nat
      BY FS_CardinalityType DEF WhereOK
    <3>2. /\ IsFiniteSet(Running \cup {c})
          /\ Cardinality(Running \cup {c}) =
                IF c \in Running THEN Cardinality(Running) ELSE Cardinality(Running) + 1
      BY FS_AddElement DEF WhereOK
    <3>3. Cardinality(Running \cup {c}) <= Cardinality(Running) + 1
      BY <3>1, <3>2
    <3> QED
      BY <1>8, <3>2, <3>3
  <2>2. Cardinality(Running) \in Nat /\ Cardinality(Running') \in Nat
    BY <2>1, FS_CardinalityType DEF WhereOK
  <2> QED
    BY <1>1, <2>1, <2>2, ChatAssumption
<1>10. \A d \in Mobile : loop' = d <=> pc'[d] \in InThread \cup {"reply", "failed"}
  BY <1>1, ChatAssumption DEF WhereOK, Chats
<1> QED
  BY <1>1, <1>2, <1>4, <1>5, <1>6, <1>7, <1>9, <1>10 DEF WhereOK, InThread

LEMMA PostMobileWhere == ASSUME WhereOK, NEW c \in Mobile, PostMobile(c) PROVE WhereOK'
<1>1. /\ pc' = [pc EXCEPT ![c] = "start"] /\ queue' = queue /\ pc[c] = "idle"
      /\ loop = NoChat /\ loop' = c
  BY DEF PostMobile, Goto, Free
<1>2. Running' = Running /\ {d \in Browser : pc'[d] = "queued"} = {d \in Browser : pc[d] = "queued"}
  BY <1>1, ChatAssumption DEF WhereOK, Running, Chats
<1>3. \A d \in Mobile : loop' = d <=> pc'[d] \in InThread \cup {"reply", "failed"}
  BY <1>1, ChatAssumption DEF WhereOK, Chats, InThread
<1> QED
  BY <1>1, <1>2, <1>3 DEF WhereOK, InThread, Chats

LEMMA AnswerWhere == ASSUME WhereOK, NEW c \in Chats, Answer(c) PROVE WhereOK'
<1>1. /\ pc' = [pc EXCEPT ![c] = "done"] /\ queue' = queue /\ pc[c] \in {"reply", "failed"}
      /\ loop \in {NoChat, c} /\ loop' = NoChat
  BY DEF Answer, Goto
<1>2. {d \in Browser : pc'[d] = "queued"} = {d \in Browser : pc[d] = "queued"}
  BY <1>1 DEF WhereOK, Chats
<1>3. Running' \subseteq Running
  BY <1>1 DEF WhereOK, Running, Chats, InThread
<1>4. \A d \in Mobile : loop' = d <=> pc'[d] \in InThread \cup {"reply", "failed"}
  BY <1>1, ChatAssumption DEF WhereOK, Chats, InThread
<1> QED
  BY <1>1, <1>2, <1>3, <1>4, RunningShrinks DEF WhereOK

LEMMA RestartWhere == ASSUME WhereOK, Restart PROVE WhereOK'
<1>1. /\ pc' = [c \in Chats |-> IF pc[c] \in {"idle", "done"} THEN pc[c] ELSE "lost"]
      /\ queue' = <<>> /\ loop' = NoChat
  BY DEF Restart
<1>2. \A c \in Chats : pc'[c] \in {"idle", "done", "lost"}
  BY <1>1
<1>3. Running' \subseteq Running /\ {d \in Browser : pc'[d] = "queued"} = {}
  BY <1>2 DEF Running, Chats, InThread
<1>4. ToSet(queue') = {} /\ IsInjective(queue') /\ queue' \in Seq(Browser)
  BY <1>1 DEF ToSet, IsInjective
<1>5. \A d \in Mobile : loop' = d <=> pc'[d] \in InThread \cup {"reply", "failed"}
  BY <1>1, <1>2, ChatAssumption DEF WhereOK, Chats, InThread
<1>6. pc' \in [Chats -> InThread \cup {"idle", "queued", "reply", "failed", "done", "lost"}]
  BY <1>1 DEF WhereOK
<1> QED
  BY <1>1, <1>3, <1>4, <1>5, <1>6, RunningShrinks DEF WhereOK

LEMMA NextWhere == ASSUME WhereOK, [Next]_vars PROVE WhereOK'
<1>1. CASE UNCHANGED vars
  BY <1>1 DEF vars, WhereOK, Running
<1>2. CASE ClearHistory \/ EditHot
  BY <1>2 DEF ClearHistory, EditHot, WhereOK, Running
<1>3. ASSUME NEW c \in Chats, Chat(c) PROVE WhereOK'
  <2>1. CASE Answer(c)
    BY <2>1, AnswerWhere
  <2>2. CASE ~Answer(c)
    <3>1. \E p \in InThread \cup {"reply", "failed"} :
              pc[c] \in InThread /\ Goto(c, p) /\ UNCHANGED <<queue, loop>>
      BY <1>3, <2>2 DEF Chat, GetAgent, CreateAgent, CreationFails, NothingToLearn, ReadProfile,
            WriteProfile, WriteHot, LearningFails, RunAgent, InThread
    <3> QED
      BY <3>1, GoesOnWhere
  <2> QED
    BY <2>1, <2>2
<1> QED
  BY <1>1, <1>2, <1>3, PostBrowserWhere, PostMobileWhere, StartWorkerWhere, RestartWhere DEF Next

----------------------------------------------------------------------------
(* The log. *)
LEMMA PairedLog == LogIsExchanges <=> Paired(log, wordless)
BY DEF LogIsExchanges, IsAnswered, AnswerIsLogged, Paired, PairedAt, FollowedAt

\* An entry that has others before and after it does not see a longer log, nor does the
\* last one see an entry of another chat behind it.
LEMMA PairedBefore ==
    ASSUME NEW l \in Seq(Roles \X Chats), NEW m \in Seq(Roles \X Chats), NEW w,
           NEW c, NEW i \in 1 .. Len(l), PairedAt(l, w, i),
           Len(m) > Len(l), \A j \in 1 .. Len(l) : m[j] = l[j],
           m[Len(l) + 1][2] = c, l[i][2] # c
    PROVE  PairedAt(m, w, i)
<1>1. m[i] = l[i] /\ (i > 1 => m[i - 1] = l[i - 1])
  <2>1. Len(l) \in Nat /\ (i > 1 => i - 1 \in 1 .. Len(l))
    OBVIOUS
  <2> QED
    BY <2>1
<1>2. FollowedAt(m, i) <=> FollowedAt(l, i)
  <2>1. CASE i < Len(l)
    <3>1. i + 1 \in 1 .. Len(l) /\ i < Len(m)
      BY <2>1
    <3> QED
      BY <1>1, <2>1, <3>1 DEF FollowedAt
  <2>2. CASE i = Len(l)
    <3>1. ~FollowedAt(l, i)
      BY <2>2 DEF FollowedAt
    <3>2. m[i + 1] # <<"agent", m[i][2]>> /\ m[i + 1] # <<"error", m[i][2]>>
      <4>1. m[i + 1][2] # m[i][2]
        <5>1. m[i + 1] = m[Len(l) + 1] /\ m[i] = l[i]
          BY <1>1, <2>2
        <5> QED
          BY <5>1
      <4>2. \A x, y : <<x, y>>[2] = y
        OBVIOUS
      <4> QED
        BY <4>1, <4>2
    <3> QED
      BY <3>1, <3>2 DEF FollowedAt
  <2> QED
    BY <2>1, <2>2
<1> QED
  BY <1>1, <1>2 DEF PairedAt

\* An answer is logged, or only its question, of a chat that is not in the log.
Absent(l, c) == \A i \in 1 .. Len(l) : l[i][2] # c

Entries(c, r, w) ==
    IF ~(c \in Browser /\ c \in w) THEN << <<"user", c>>, <<r, c>> >> ELSE << <<"user", c>> >>

OfNoOther(l, m, c) == \A i \in 1 .. Len(m) : m[i][2] = c \/ \E j \in 1 .. Len(l) : m[i] = l[j]

LEMMA AnswerPairs ==
    ASSUME NEW l \in Seq(Roles \X Chats), NEW w, Paired(l, w), NEW c \in Chats, Absent(l, c),
           NEW r \in {"agent", "error"}, NEW m, m = l \o Entries(c, r, w)
    PROVE  m \in Seq(Roles \X Chats) /\ Paired(m, w) /\ OfNoOther(l, m, c)
<1> DEFINE n == Len(l)
<1>1. n \in Nat /\ <<"user", c>> \in Roles \X Chats /\ <<r, c>> \in Roles \X Chats
  BY DEF Roles
<1>2. /\ m \in Seq(Roles \X Chats) /\ Len(m) \in {n + 1, n + 2} /\ Len(m) > n
      /\ \A i \in 1 .. n : m[i] = l[i]
      /\ m[n + 1] = <<"user", c>>
      /\ Len(m) = n + 2 => m[n + 2] = <<r, c>>
      /\ Len(m) = n + 2 <=> ~(c \in Browser /\ c \in w)
  <2>1. CASE ~(c \in Browser /\ c \in w)
    <3>1. m = l \o << <<"user", c>>, <<r, c>> >>
      BY <2>1 DEF Entries
    <3> QED
      BY <1>1, <2>1, <3>1
  <2>2. CASE c \in Browser /\ c \in w
    <3>1. PICK x \in Roles \X Chats : x = <<"user", c>>
      BY <1>1
    <3>2. m = l \o <<x>>
      BY <2>2, <3>1 DEF Entries
    <3>3. m \in Seq(Roles \X Chats) /\ Len(m) = n + 1 /\ m[n + 1] = x
          /\ \A i \in 1 .. n : m[i] = l[i]
      BY <3>1, <3>2
    <3> QED
      BY <1>1, <2>2, <3>1, <3>3
  <2> QED
    BY <2>1, <2>2
<1>3. ASSUME NEW i \in 1 .. Len(m) PROVE PairedAt(m, w, i)
  <2>1. CASE i \in 1 .. n
    <3>1. PairedAt(l, w, i) /\ l[i][2] # c /\ m[Len(l) + 1][2] = c
      BY <1>2, <2>1 DEF Paired, Absent
    <3> QED
      BY <1>2, <2>1, <3>1, PairedBefore, ZenonT(60)
  <2>2. CASE i = n + 1
    <3>1. m[i][1] = "user" /\ m[i][2] = c
      BY <1>2, <2>2
    <3>2. FollowedAt(m, i) <=> Len(m) = n + 2
      BY <1>1, <1>2, <2>2, <3>1 DEF FollowedAt
    <3> QED
      BY <1>2, <3>1, <3>2 DEF PairedAt
  <2>3. CASE i = n + 2
    <3>1. m[i] = <<r, c>> /\ m[i - 1] = <<"user", c>> /\ i > 1
      BY <1>1, <1>2, <2>3
    <3> QED
      BY <3>1 DEF PairedAt
  <2> QED
    BY <1>1, <1>2, <2>1, <2>2, <2>3
<1>4. ASSUME NEW i \in 1 .. Len(m) PROVE m[i][2] = c \/ \E j \in 1 .. n : m[i] = l[j]
  <2>1. CASE i \in 1 .. n
    BY <1>2, <2>1
  <2>2. CASE i \in {n + 1, n + 2}
    BY <1>1, <1>2, <2>2
  <2> QED
    BY <1>1, <1>2, <2>1, <2>2
<1> QED
  BY <1>2, <1>3, <1>4 DEF Paired, OfNoOther

\* A chat that was not done goes on, in its own way: the log stays as it is.
LEMMA GoesOnLog ==
    ASSUME WhereOK, LogOK, log' = log, agent' \in Chats \cup {NoChat},
           NEW c \in Chats, pc[c] # "done", NEW p, Goto(c, p),
           wordless' \in {wordless, wordless \cup {c}}
    PROVE  LogOK'
<1>1. \A i \in 1 .. Len(log) : log[i][2] \in Chats /\ log[i][2] # c /\ pc'[log[i][2]] = "done"
  BY DEF LogOK, WhereOK, Goto
<1>2. \A i \in 1 .. Len(log) : log[i][2] \in wordless' <=> log[i][2] \in wordless
  BY <1>1
<1>3. Paired(log, wordless')
  BY <1>2 DEF LogOK, Paired, PairedAt
<1> QED
  BY <1>1, <1>3 DEF LogOK

LEMMA NextLog == ASSUME WhereOK, LogOK, [Next]_vars PROVE LogOK'
<1>1. CASE UNCHANGED <<pc, agent, wordless, log>>
  BY <1>1 DEF LogOK
<1>2. CASE log' = <<>> /\ agent' \in {agent, NoChat} /\ wordless' = wordless
  BY <1>2 DEF LogOK, Paired
<1>3. ASSUME NEW c \in Chats, Chat(c), ~Answer(c) PROVE LogOK'
  <2>1. /\ log' = log /\ agent' \in {agent, c} /\ pc[c] # "done"
        /\ wordless' \in {wordless, wordless \cup {c}}
        /\ \E p : Goto(c, p)
    BY <1>3 DEF Chat, GetAgent, CreateAgent, CreationFails, NothingToLearn, ReadProfile,
          WriteProfile, WriteHot, LearningFails, RunAgent
  <2>2. agent' \in Chats \cup {NoChat}
    BY <2>1 DEF LogOK
  <2> QED
    BY <2>1, <2>2, GoesOnLog
<1>4. ASSUME NEW c \in Chats, PostBrowser(c) \/ PostMobile(c) PROVE LogOK'
  <2>1. log' = log /\ agent' = agent /\ wordless' = wordless /\ pc[c] = "idle" /\ \E p : Goto(c, p)
    BY <1>4 DEF PostBrowser, PostMobile
  <2>2. agent' \in Chats \cup {NoChat}
    BY <2>1 DEF LogOK
  <2> QED
    BY <2>1, <2>2, GoesOnLog
<1>5. CASE StartWorker
  <2>1. queue \in Seq(Browser) /\ queue # <<>> /\ Head(queue) = queue[1] /\ 1 \in DOMAIN queue
    BY <1>5 DEF StartWorker, WhereOK
  <2>2. Head(queue) \in ToSet(queue)
    BY <2>1 DEF ToSet
  <2>3. PICK c \in Chats : Goto(c, "start") /\ pc[c] = "queued"
    BY <1>5, <2>2 DEF StartWorker, WhereOK, Chats
  <2>4. log' = log /\ agent' = agent /\ wordless' = wordless /\ agent' \in Chats \cup {NoChat}
    BY <1>5 DEF StartWorker, LogOK
  <2> QED
    BY <2>3, <2>4, GoesOnLog
<1>6. ASSUME NEW c \in Chats, Answer(c) PROVE LogOK'
  <2>1. /\ pc[c] \in {"reply", "failed"} /\ pc' = [pc EXCEPT ![c] = "done"]
        /\ log' = log \o Exchange(c) /\ agent' = agent /\ wordless' = wordless
        /\ log \in Seq(Roles \X Chats) /\ Paired(log, wordless)
    BY <1>6 DEF Answer, Goto, LogOK
  <2>2. Absent(log, c)
    BY <2>1 DEF LogOK, Absent
  <2>3. PICK r \in {"agent", "error"} : Exchange(c) = Entries(c, r, wordless)
    BY DEF Exchange, AnswerIsLogged, Entries
  <2>4. log' \in Seq(Roles \X Chats) /\ Paired(log', wordless) /\ OfNoOther(log, log', c)
    <3>1. PICK k, v, g, d, q : k = log /\ v = wordless /\ g = log' /\ d = c /\ q = r
      OBVIOUS
    <3>2. /\ k \in Seq(Roles \X Chats) /\ d \in Chats /\ q \in {"agent", "error"}
          /\ g = k \o Entries(d, q, v) /\ Paired(k, v) /\ Absent(k, d)
      BY <2>1, <2>2, <2>3, <3>1
    <3>3. g \in Seq(Roles \X Chats) /\ Paired(g, v) /\ OfNoOther(k, g, d)
      BY <3>2, AnswerPairs
    <3> QED
      BY <3>1, <3>3
  <2>5. pc'[c] = "done" /\ \A j \in 1 .. Len(log) : pc'[log[j][2]] = "done"
    BY <2>1 DEF WhereOK, LogOK
  <2>6. \A i \in 1 .. Len(log') : pc'[log'[i][2]] = "done"
    BY <2>4, <2>5 DEF OfNoOther
  <2> QED
    BY <2>1, <2>4, <2>6 DEF LogOK
<1>7. CASE ClearHistory \/ Restart
  BY <1>2, <1>7 DEF ClearHistory, Restart
<1>8. CASE EditHot \/ UNCHANGED vars
  BY <1>1, <1>8 DEF EditHot, vars
<1> QED
  BY <1>3, <1>4, <1>5, <1>6, <1>7, <1>8 DEF Next, Chats

----------------------------------------------------------------------------
(* The files. *)
\* What says that nothing was written, and nothing is under way that was not.
FilesUnchanged == UNCHANGED <<profile, hot, cache, valid, base, torn, last>>

\* A chat that neither was nor is between two of its accesses to the files.
LEMMA GotoFiles ==
    ASSUME WhereOK, FilesOK, UpdateOK, NEW c \in Chats, NEW p, Goto(c, p),
           pc[c] \notin {"profile", "hot"}, p \notin {"profile", "hot"},
           told' \in [Chats -> Names \cup {NoName}], \A d \in Chats : d # c => told'[d] = told[d],
           FilesUnchanged
    PROVE  FilesOK' /\ UpdateOK'
<1>1. pc' = [pc EXCEPT ![c] = p] /\ pc \in [Chats -> InThread \cup {"idle", "queued", "reply", "failed", "done", "lost"}]
  BY DEF Goto, WhereOK
<1>2. Updating' = Updating /\ c \notin Updating
  BY <1>1 DEF Updating
<1>3. Read' = Read
  BY DEF Read, FilesUnchanged
<1>4. \A d \in Chats : pc'[d] = "hot" <=> pc[d] = "hot"
  BY <1>1
<1>5. FilesOK'
  BY <1>2, <1>3, <1>4 DEF FilesOK, FilesUnchanged, Updating
<1>6. UpdateOK'
  BY <1>1, <1>2, <1>3, <1>4 DEF UpdateOK, Whole, FilesUnchanged
<1> QED
  BY <1>5, <1>6

LEMMA CreateFiles ==
    ASSUME WhereOK, FilesOK, UpdateOK, NEW c \in Chats, CreateAgent(c) PROVE FilesOK' /\ UpdateOK'
<1>1. /\ pc' = [pc EXCEPT ![c] = "learn"] /\ pc[c] = "create"
      /\ cache' = hot /\ valid' = TRUE /\ torn' = (torn \/ Updating # {})
      /\ UNCHANGED <<told, profile, hot, base, last>>
      /\ pc \in [Chats -> InThread \cup {"idle", "queued", "reply", "failed", "done", "lost"}]
  BY DEF CreateAgent, Goto, FilesOK, WhereOK
<1>2. Updating' = Updating
  BY <1>1 DEF Updating
<1>3. Read' = hot'
  BY <1>1 DEF Read
<1>4. \A d \in Chats : pc'[d] = "hot" <=> pc[d] = "hot"
  BY <1>1
<1>5. torn' \in BOOLEAN /\ valid' \in BOOLEAN /\ cache' \in HotFile \cup {NoContent}
  BY <1>1 DEF FilesOK
<1>6. FilesOK'
  BY <1>1, <1>2, <1>3, <1>4, <1>5 DEF FilesOK
<1>7. torn' \/ ~torn
  BY <1>1
<1>8. UpdateOK'
  BY <1>1, <1>2, <1>4, <1>7 DEF UpdateOK, Whole
<1> QED
  BY <1>6, <1>8

LEMMA ReadProfileFiles ==
    ASSUME WhereOK, FilesOK, UpdateOK, NEW c \in Chats, ReadProfile(c) PROVE FilesOK' /\ UpdateOK'
<1>1. /\ pc' = [pc EXCEPT ![c] = "profile"] /\ pc[c] = "learn"
      /\ torn' = (torn \/ Updating # {}) /\ told[c] # NoName
      /\ UNCHANGED <<told, profile, hot, cache, valid, base, last>>
      /\ pc \in [Chats -> InThread \cup {"idle", "queued", "reply", "failed", "done", "lost"}]
  BY DEF ReadProfile, Goto, WhereOK
<1>2. Updating' = Updating \cup {c}
  BY <1>1 DEF Updating
<1>3. Read' = hot' /\ torn' \in BOOLEAN
  BY <1>1 DEF Read, FilesOK
<1>4. \A d \in Chats : pc'[d] = "hot" <=> pc[d] = "hot"
  BY <1>1
<1>5. FilesOK'
  BY <1>1, <1>2, <1>3, <1>4 DEF FilesOK
<1>6. ASSUME ~torn' PROVE Whole'
  <2>1. Updating = {} /\ ~torn
    BY <1>1, <1>6
  <2>2. \A d \in Chats : pc'[d] # "hot"
    BY <1>4, <2>1 DEF Updating
  <2> QED
    BY <1>2, <2>1, <2>2 DEF Whole
<1> QED
  BY <1>5, <1>6 DEF UpdateOK

LEMMA WriteProfileFiles ==
    ASSUME WhereOK, FilesOK, UpdateOK, NEW c \in Chats, WriteProfile(c) PROVE FilesOK' /\ UpdateOK'
<1>1. /\ pc' = [pc EXCEPT ![c] = "hot"] /\ pc[c] = "profile"
      /\ profile' = told[c] /\ base' = [base EXCEPT ![c] = hot] /\ cache' = hot /\ valid' = TRUE
      /\ torn' = (torn \/ Updating # {c})
      /\ UNCHANGED <<told, hot, last>>
      /\ pc \in [Chats -> InThread \cup {"idle", "queued", "reply", "failed", "done", "lost"}]
  BY DEF WriteProfile, Goto, WhereOK, FilesOK
<1>2. Updating' = Updating /\ c \in Updating
  BY <1>1 DEF Updating
<1>3. Read' = hot' /\ torn' \in BOOLEAN /\ profile' \in Names \cup {NoName}
  BY <1>1 DEF Read, FilesOK
<1>4. base' \in [Chats -> HotFile \cup {NoContent}] /\ base'[c] = hot
      /\ \A d \in Chats : d # c => base'[d] = base[d] /\ pc'[d] = pc[d]
  BY <1>1 DEF FilesOK
<1>5. FilesOK'
  BY <1>1, <1>2, <1>3, <1>4 DEF FilesOK
<1>6. ASSUME ~torn' PROVE Whole'
  <2>1. Updating = {c} /\ ~torn
    BY <1>1, <1>6
  <2>2. \A d \in Chats : pc'[d] = "hot" => d = c
    BY <1>1, <2>1 DEF Updating
  <2> QED
    <3>1. /\ \A d, e \in Updating' : d = e
          /\ Updating' # {}
      BY <1>2, <2>1
    <3>2. base'[c] = hot' /\ profile' = told'[c]
      BY <1>1, <1>4
    <3> QED
      BY <2>2, <3>1, <3>2 DEF Whole
<1> QED
  BY <1>5, <1>6 DEF UpdateOK

LEMMA WriteHotFiles ==
    ASSUME WhereOK, FilesOK, UpdateOK, NEW c \in Chats, WriteHot(c) PROVE FilesOK' /\ UpdateOK'
<1>1. /\ pc' = [pc EXCEPT ![c] = "run"] /\ pc[c] = "hot"
      /\ hot' = [base[c] EXCEPT !.name = told[c]] /\ cache' = hot' /\ valid' = TRUE
      /\ base' = [base EXCEPT ![c] = NoContent] /\ last' = told[c]
      /\ torn' = (torn \/ Updating # {c}) /\ told' = [told EXCEPT ![c] = NoName]
      /\ UNCHANGED profile
      /\ pc \in [Chats -> InThread \cup {"idle", "queued", "reply", "failed", "done", "lost"}]
  BY DEF WriteHot, Goto, Told, WhereOK
<1>2. Updating' = Updating \ {c} /\ c \in Updating
  BY <1>1 DEF Updating
<1>3. Read' = hot' /\ torn' \in BOOLEAN
  BY <1>1 DEF Read, FilesOK
<1>4. base' \in [Chats -> HotFile \cup {NoContent}] /\ base'[c] = NoContent /\ told' \in [Chats -> Names \cup {NoName}]
      /\ \A d \in Chats : d # c => base'[d] = base[d] /\ pc'[d] = pc[d] /\ told'[d] = told[d]
  BY <1>1 DEF FilesOK
<1>5. told[c] \in Names
  BY <1>2 DEF FilesOK
<1>6. base[c] \in HotFile /\ hot' \in HotFile /\ hot'.name = told[c]
  <2>1. base[c] \in HotFile
    BY <1>1 DEF FilesOK
  <2> QED
    BY <1>1, <1>5, <2>1 DEF HotFile
<1>7. FilesOK'
  BY <1>1, <1>2, <1>3, <1>4, <1>5, <1>6 DEF FilesOK
<1>8. ASSUME ~torn' PROVE Whole'
  <2>1. Updating = {c} /\ ~torn
    BY <1>1, <1>8
  <2>2. profile = told[c]
    BY <1>1, <2>1 DEF UpdateOK, Whole
  <2>3. Updating' = {} /\ \A d \in Chats : pc'[d] # "hot"
    BY <1>1, <1>2, <1>4, <2>1 DEF Updating
  <2>4. profile' = last' /\ hot'.name = last'
    BY <1>1, <1>6, <2>2
  <2> QED
    BY <2>3, <2>4 DEF Whole
<1> QED
  BY <1>7, <1>8 DEF UpdateOK

LEMMA LearningFailsFiles ==
    ASSUME WhereOK, FilesOK, UpdateOK, NEW c \in Chats, LearningFails(c) PROVE FilesOK' /\ UpdateOK'
<1>1. /\ pc' = [pc EXCEPT ![c] = "run"]
      /\ base' = [base EXCEPT ![c] = NoContent] /\ torn' = TRUE /\ told' = [told EXCEPT ![c] = NoName]
      /\ UNCHANGED <<profile, hot, cache, valid, last>>
      /\ pc \in [Chats -> InThread \cup {"idle", "queued", "reply", "failed", "done", "lost"}]
  BY DEF LearningFails, Goto, Told, WhereOK
<1>2. Updating' = Updating \ {c}
  BY <1>1 DEF Updating
<1>3. Read' = hot'
  BY <1>1 DEF Read, FilesOK
<1>4. base' \in [Chats -> HotFile \cup {NoContent}] /\ base'[c] = NoContent /\ told' \in [Chats -> Names \cup {NoName}]
      /\ pc'[c] = "run" /\ \A d \in Chats : d # c => base'[d] = base[d] /\ pc'[d] = pc[d] /\ told'[d] = told[d]
  BY <1>1 DEF FilesOK
<1>5. FilesOK'
  BY <1>1, <1>2, <1>3, <1>4 DEF FilesOK
<1> QED
  BY <1>1, <1>5 DEF UpdateOK

LEMMA EditFiles == ASSUME WhereOK, FilesOK, UpdateOK, EditHot PROVE FilesOK' /\ UpdateOK'
<1>1. /\ hot.rest < MaxEdits /\ hot' = [hot EXCEPT !.rest = @ + 1]
      /\ valid' = FALSE /\ torn' = (torn \/ Updating # {})
      /\ UNCHANGED <<pc, told, profile, cache, base, last>>
  BY DEF EditHot
<1>2. hot' \in HotFile /\ hot'.name = hot.name
  BY <1>1, ChatAssumption DEF FilesOK, HotFile
<1>3. Updating' = Updating /\ Read' = hot' /\ torn' \in BOOLEAN
  BY <1>1 DEF Updating, Read, FilesOK
<1>4. FilesOK'
  BY <1>1, <1>2, <1>3 DEF FilesOK
<1>5. ASSUME ~torn' PROVE Whole'
  <2>1. Updating = {} /\ ~torn
    BY <1>1, <1>5
  <2>2. \A d \in Chats : pc'[d] # "hot"
    BY <1>1, <2>1 DEF Updating
  <2> QED
    BY <1>1, <1>2, <1>3, <2>1, <2>2 DEF Whole, UpdateOK
<1> QED
  BY <1>4, <1>5 DEF UpdateOK

LEMMA RestartFiles == ASSUME WhereOK, FilesOK, UpdateOK, Restart PROVE FilesOK' /\ UpdateOK'
<1>1. /\ \A c \in Chats : pc'[c] \in {"idle", "done", "lost"}
      /\ cache' = NoContent /\ valid' = FALSE /\ torn' = (torn \/ Updating # {})
      /\ base' = [c \in Chats |-> NoContent] /\ told' = [c \in Chats |-> NoName]
      /\ UNCHANGED <<profile, hot, last>>
  BY DEF Restart
<1>2. Updating' = {} /\ \A c \in Chats : pc'[c] # "hot"
  BY <1>1 DEF Updating
<1>3. Read' = hot' /\ torn' \in BOOLEAN
  BY <1>1 DEF Read, FilesOK
<1>4. FilesOK'
  BY <1>1, <1>2, <1>3 DEF FilesOK
<1>5. ASSUME ~torn' PROVE Whole'
  <2>1. Updating = {} /\ ~torn
    BY <1>1, <1>5
  <2> QED
    BY <1>1, <1>2, <2>1 DEF Whole, UpdateOK
<1> QED
  BY <1>4, <1>5 DEF UpdateOK

LEMMA NextFiles == ASSUME WhereOK, FilesOK, UpdateOK, [Next]_vars PROVE FilesOK' /\ UpdateOK'
<1>1. CASE UNCHANGED <<pc, told, profile, hot, cache, valid, base, torn, last>>
  BY <1>1 DEF FilesOK, UpdateOK, Whole, Updating, Read
<1>2. ASSUME NEW c \in Chats, \/ PostBrowser(c) \/ PostMobile(c)
                              \/ GetAgent(c) \/ CreationFails(c) \/ NothingToLearn(c)
                              \/ RunAgent(c) \/ Answer(c)
      PROVE  FilesOK' /\ UpdateOK'
  <2>1. /\ FilesUnchanged /\ pc[c] \notin {"profile", "hot"}
        /\ \E p : Goto(c, p) /\ p \notin {"profile", "hot"}
    BY <1>2 DEF PostBrowser, PostMobile, GetAgent, CreationFails, NothingToLearn, RunAgent, Answer,
          FilesUnchanged, files
  <2>2. told' = told \/ \E n \in Names \cup {NoName} : Told(c, n)
    BY <1>2 DEF PostBrowser, PostMobile, GetAgent, CreationFails, NothingToLearn, RunAgent, Answer
  <2>3. told' \in [Chats -> Names \cup {NoName}] /\ \A d \in Chats : d # c => told'[d] = told[d]
    BY <2>2 DEF Told, FilesOK
  <2> QED
    BY <2>1, <2>3, GotoFiles
<1>3. CASE StartWorker
  <2>1. queue \in Seq(Browser) /\ queue # <<>> /\ Head(queue) = queue[1] /\ 1 \in DOMAIN queue
    BY <1>3 DEF StartWorker, WhereOK
  <2>2. Head(queue) \in ToSet(queue)
    BY <2>1 DEF ToSet
  <2>3. PICK c \in Chats : Goto(c, "start") /\ pc[c] = "queued"
    BY <1>3, <2>2 DEF StartWorker, WhereOK, Chats
  <2>4. FilesUnchanged /\ told' = told /\ told \in [Chats -> Names \cup {NoName}]
    BY <1>3 DEF StartWorker, FilesUnchanged, files, FilesOK
  <2> QED
    BY <2>3, <2>4, GotoFiles
<1>4. CASE ClearHistory
  BY <1>1, <1>4 DEF ClearHistory, files
<1> QED
  BY <1>1, <1>2, <1>3, <1>4, CreateFiles, ReadProfileFiles, WriteProfileFiles, WriteHotFiles,
     LearningFailsFiles, EditFiles, RestartFiles
     DEF Next, Chat, Chats, vars, files

----------------------------------------------------------------------------
\* The inductive invariant of the chats holds whatever their requests, the threads, the
\* owner and the process do.
THEOREM ChatInvariant == Init /\ [][Next]_vars => []IInv
<1>1. IInv /\ [Next]_vars => IInv'
  BY NextWhere, NextLog, NextFiles DEF IInv
<1> QED
  BY <1>1, InitChats, PTL

\* The variables of the chats keep their types.
THEOREM ChatTypeCorrect == Init /\ [][Next]_vars => []TypeOK
<1>1. IInv => TypeOK
  BY DEF IInv, WhereOK, FilesOK, LogOK, TypeOK
<1> QED
  BY <1>1, ChatInvariant, PTL

\* However chats overlap, fail and are cut off, the message log pairs every question
\* with its own answer (routes/agents.py, routes/chat_api.py).
THEOREM LogsExchanges == Init /\ [][Next]_vars => []LogIsExchanges
<1>1. IInv => LogIsExchanges
  BY PairedLog DEF IInv, LogOK
<1> QED
  BY <1>1, ChatInvariant, PTL

\* Without an overlap the two files of the memory system agree, the cache of HotMemory
\* is what the file holds, and an update writes back what the owner wrote.
THEOREM MemoryWhole == Init /\ [][Next]_vars => []MemoryIsWhole
<1>1. IInv => MemoryIsWhole
  BY DEF IInv, FilesOK, UpdateOK, Whole, MemoryIsWhole, Updating
<1> QED
  BY <1>1, ChatInvariant, PTL

----------------------------------------------------------------------------
(***************************************************************************)
(* The cloud back ends.                                                    *)
(***************************************************************************)

Role(i) == IF i % 2 = 1 THEN "user" ELSE "assistant"
Alternates(s) == \A i \in DOMAIN s : s[i][1] = Role(i)

\* Of a back end that never had two calls at once: its history is a conversation that
\* lacks its last answer exactly while the call under way is about to record it, and
\* the part of it that went along with a question is a conversation too.
TalksOK(b) ==
    /\ \A c, d \in Calls : uses[c] = b /\ Under(c) /\ uses[d] = b /\ Under(d) => c = d
    /\ Alternates(past[b])
    /\ Len(past[b]) % 2 = IF \E c \in Calls : uses[c] = b /\ stage[c] = "answer" THEN 1 ELSE 0
    /\ \A c \in Calls : uses[c] = b => Alternates(sent[c])

BackendIInv ==
    /\ BackendTypeOK
    /\ \A c \in Calls : Under(c) => uses[c] \in Backends
    /\ \A b \in Backends : b \notin shared => TalksOK(b)

----------------------------------------------------------------------------
LEMMA Parity ==
    /\ \A x, y \in Nat : x % 2 = 0 => (x + y) % 2 = y % 2
    /\ \A x, y \in Nat : x % 2 = 0 /\ y % 2 = 0 /\ x > y => (x - y) % 2 = 0
    /\ \A x \in Nat : x % 2 \in {0, 1} /\ (x + 1) % 2 = 1 - (x % 2)
OBVIOUS

\* What is left of a conversation of whole exchanges, cut to an even length, is one.
LEMMA NewestOK ==
    ASSUME NEW S, NEW s \in Seq(S), NEW n \in Nat \ {0}
    PROVE  /\ Newest(s, n) \in Seq(S)
           /\ n % 2 = 0 /\ Len(s) % 2 = 0 /\ Alternates(s) =>
                 Alternates(Newest(s, n)) /\ Len(Newest(s, n)) % 2 = 0
<1>1. CASE Len(s) <= n
  <2>1. Len(s) \in Nat /\ SubSeq(s, 1, Len(s)) = s
    OBVIOUS
  <2>2. Newest(s, n) = s
    <3>1. ~(Len(s) > n)
      BY <1>1, <2>1
    <3> QED
      BY <2>1, <3>1, Zenon DEF Newest
  <2> QED
    BY <2>2
<1>2. CASE Len(s) > n
  <2> DEFINE k == Len(s) - n
             t == Newest(s, n)
  <2>1. t = SubSeq(s, k + 1, Len(s)) /\ k \in Nat /\ Len(s) \in Nat
    BY <1>2 DEF Newest
  <2>2. t \in Seq(S) /\ Len(t) = n /\ \A i \in 1 .. n : t[i] = s[k + i]
    BY <1>2, <2>1
  <2>3. ASSUME n % 2 = 0, Len(s) % 2 = 0, Alternates(s)
        PROVE  Alternates(t) /\ Len(t) % 2 = 0
    <3>1. k % 2 = 0
      BY <1>2, <2>1, <2>3, Parity
    <3>2. ASSUME NEW i \in 1 .. n PROVE t[i][1] = Role(i)
      <4>1. k + i \in DOMAIN s /\ (k + i) % 2 = i % 2
        <5>1. k + i \in 1 .. Len(s) /\ i \in Nat
          BY <1>2, <2>1
        <5>2. (k + i) % 2 = i % 2
          <6> HIDE DEF k
          <6> QED
            BY <2>1, <3>1, <5>1, Parity
        <5> QED
          BY <5>1, <5>2
      <4> QED
        BY <2>2, <2>3, <4>1 DEF Alternates, Role
    <3> QED
      BY <2>2, <2>3, <3>2 DEF Alternates
  <2> QED
    BY <2>2, <2>3
<1> QED
  BY <1>1, <1>2

\* The next message of a conversation.
LEMMA AppendOK ==
    ASSUME NEW S, NEW s \in Seq(S), NEW m \in S, Alternates(s), m[1] = Role(Len(s) + 1)
    PROVE  Alternates(Append(s, m))
<1>1. /\ Len(s) \in Nat /\ DOMAIN Append(s, m) = 1 .. Len(s) + 1 /\ DOMAIN s = 1 .. Len(s)
      /\ Append(s, m)[Len(s) + 1] = m /\ \A i \in 1 .. Len(s) : Append(s, m)[i] = s[i]
  OBVIOUS
<1> QED
  BY <1>1 DEF Alternates

LEMMA InitBackends == BackendInit => BackendIInv
<1> SUFFICES ASSUME BackendInit PROVE BackendIInv
  OBVIOUS
<1>1. BackendTypeOK
  BY DEF BackendInit, BackendTypeOK
<1>2. \A c \in Calls : ~Under(c) /\ sent[c] = <<>> /\ stage[c] # "answer"
  BY DEF BackendInit, Under, Recording
<1>3. \A b \in Backends : past[b] = <<>>
  BY DEF BackendInit
<1>4. ASSUME NEW b \in Backends PROVE TalksOK(b)
  <2>1. past[b] = <<>> /\ Len(past[b]) = 0 /\ DOMAIN past[b] = {} /\ 0 % 2 = 0
    BY <1>3
  <2>2. \A c \in Calls : DOMAIN sent[c] = {}
    BY <1>2
  <2> QED
    BY <1>2, <2>1, <2>2 DEF TalksOK, Alternates
<1> QED
  BY <1>1, <1>2, <1>4 DEF BackendIInv

LEMMA AskKeeps ==
    ASSUME BackendIInv, NEW c \in Calls, NEW b \in Backends, ~Under(c), Ask(c, b),
           singleton' \in GrokCalls \cup {NoBackend}
    PROVE  BackendIInv'
<1> DEFINE t == Newest(past[b], Context)
<1>1. /\ stage' = [stage EXCEPT ![c] = "asking"] /\ uses' = [uses EXCEPT ![c] = b]
      /\ sent' = [sent EXCEPT ![c] = t]
      /\ shared' = shared \cup {b : d \in {e \in Calls : uses[e] = b /\ Under(e)}}
      /\ UNCHANGED <<past, requests, errors>>
  BY DEF Ask
<1>2. /\ stage \in [Calls -> Recording \cup {"idle", "create", "asking", "over", "failed"}]
      /\ uses \in [Calls -> Backends \cup {NoBackend}]
      /\ past \in [Backends -> Seq(Message)] /\ sent \in [Calls -> Seq(Message)]
      /\ requests \in [GrokCalls -> Nat] /\ errors \in [GrokCalls -> Nat]
      /\ shared \subseteq Backends
  BY DEF BackendIInv, BackendTypeOK
<1>3. past[b] \in Seq(Message) /\ t \in Seq(Message)
  BY <1>2, NewestOK, BackendAssumption
<1>4. BackendTypeOK'
  BY <1>1, <1>2, <1>3 DEF BackendTypeOK
<1>5. /\ Under(c)' /\ uses'[c] = b /\ stage'[c] = "asking" /\ sent'[c] = t
      /\ \A d \in Calls : d # c => /\ Under(d)' = Under(d) /\ uses'[d] = uses[d]
                                   /\ stage'[d] = stage[d] /\ sent'[d] = sent[d]
  BY <1>1, <1>2 DEF Under
<1> HIDE DEF t
<1>6. \A d \in Calls : Under(d)' => uses'[d] \in Backends
  BY <1>5 DEF BackendIInv
<1>7. ASSUME NEW a \in Backends, a \notin shared' PROVE TalksOK(a)'
  <2>1. TalksOK(a)
    BY <1>1, <1>7 DEF BackendIInv
  <2>2. CASE a # b
    <3>1. \A d \in Calls : uses'[d] = a => d # c
      BY <1>5, <2>2
    <3>2. ASSUME uses[c] = a, stage[c] = "answer" PROVE FALSE
      BY <3>2 DEF Under, Recording
    <3>3. /\ past'[a] = past[a]
          /\ \A d \in Calls : uses'[d] = a =>
                 /\ uses[d] = a /\ Under(d)' = Under(d)
                 /\ stage'[d] = stage[d] /\ sent'[d] = sent[d]
          /\ \A d \in Calls : uses[d] = a /\ stage[d] = "answer" =>
                 uses'[d] = a /\ stage'[d] = "answer"
      BY <1>1, <1>5, <3>1, <3>2
    <3>4. (\E d \in Calls : uses'[d] = a /\ stage'[d] = "answer")
             <=> (\E d \in Calls : uses[d] = a /\ stage[d] = "answer")
      BY <3>3
    <3> QED
      BY <2>1, <3>3, <3>4 DEF TalksOK
  <2>3. CASE a = b
    <3>1. \A d \in Calls : ~(uses[d] = b /\ Under(d))
      BY <1>1, <1>7, <2>3
    <3>2. \A d \in Calls : ~(uses[d] = b /\ stage[d] = "answer")
      BY <3>1 DEF Under, Recording
    <3>3. Len(past[b]) % 2 = 0 /\ Alternates(past[b])
      BY <2>1, <2>3, <3>2 DEF TalksOK
    <3>4. Alternates(t)
      BY <1>3, <3>3, NewestOK, BackendAssumption DEF t
    <3>5. \A d, e \in Calls : uses'[d] = b /\ Under(d)' /\ uses'[e] = b /\ Under(e)' => d = e
      BY <1>5, <3>1
    <3>6. ~ \E d \in Calls : uses'[d] = b /\ stage'[d] = "answer"
      BY <1>5, <3>2
    <3>7. \A d \in Calls : uses'[d] = b => Alternates(sent'[d])
      BY <1>5, <2>1, <2>3, <3>4 DEF TalksOK
    <3> QED
      <4>1. past'[a] = past[b] /\ a = b
        BY <1>1, <2>3
      <4> QED
        BY <3>3, <3>5, <3>6, <3>7, <4>1 DEF TalksOK
  <2> QED
    BY <2>2, <2>3
<1> QED
  BY <1>4, <1>6, <1>7 DEF BackendIInv

\* A call goes on without touching a history.
LEMMA MovesKeeps ==
    ASSUME BackendIInv, NEW c \in Calls, stage[c] # "answer",
           NEW p \in {"create", "question", "failed"},
           p = "question" => Under(c),
           stage' = [stage EXCEPT ![c] = p], UNCHANGED <<singleton, uses, past, sent, shared>>,
           requests' \in [GrokCalls -> Nat], errors' \in [GrokCalls -> Nat]
    PROVE  BackendIInv'
<1>1. stage \in [Calls -> Recording \cup {"idle", "create", "asking", "over", "failed"}]
  BY DEF BackendIInv, BackendTypeOK
<1>2. BackendTypeOK'
  BY <1>1 DEF BackendIInv, BackendTypeOK, Recording
<1>3. /\ \A d \in Calls : Under(d)' => Under(d)
      /\ \A d \in Calls : stage'[d] = "answer" <=> stage[d] = "answer"
  BY <1>1 DEF Under, Recording
<1>4. ASSUME NEW b \in Backends, b \notin shared PROVE TalksOK(b)'
  <2>1. TalksOK(b)
    BY <1>4 DEF BackendIInv
  <2> QED
    BY <1>3, <2>1 DEF TalksOK
<1> QED
  BY <1>2, <1>3, <1>4 DEF BackendIInv

\* A call changes the history of its back end.
LEMMA HistoryKeeps ==
    ASSUME BackendIInv, NEW c \in Calls, Under(c), NEW b \in Backends, b = uses[c],
           NEW s \in Seq(Message), NEW p \in {"answer", "trim", "over"},
           stage' = [stage EXCEPT ![c] = p], past' = [past EXCEPT ![b] = s],
           UNCHANGED <<singleton, uses, sent, requests, errors, shared>>,
           b \notin shared => Alternates(s) /\ Len(s) % 2 = IF p = "answer" THEN 1 ELSE 0
    PROVE  BackendIInv'
<1>1. /\ stage \in [Calls -> Recording \cup {"idle", "create", "asking", "over", "failed"}]
      /\ past \in [Backends -> Seq(Message)]
  BY DEF BackendIInv, BackendTypeOK
<1>2. BackendTypeOK'
  BY <1>1 DEF BackendIInv, BackendTypeOK, Recording
<1>3. \A d \in Calls : Under(d)' => Under(d)
  BY <1>1 DEF Under, Recording
<1>4. ASSUME NEW a \in Backends, a \notin shared PROVE TalksOK(a)'
  <2>1. TalksOK(a)
    BY <1>4 DEF BackendIInv
  <2>2. \A d, e \in Calls : uses'[d] = a /\ Under(d)' /\ uses'[e] = a /\ Under(e)' => d = e
    BY <1>3, <2>1 DEF TalksOK
  <2>3. \A d \in Calls : uses'[d] = a => Alternates(sent'[d])
    BY <2>1 DEF TalksOK
  <2>4. CASE a = b
    <3>1. past'[a] = s
      BY <1>1, <2>4
    <3>2. \A d \in Calls : uses[d] = b /\ stage[d] = "answer" => d = c
      BY <2>1, <2>4 DEF TalksOK, Under, Recording
    <3>3. (\E d \in Calls : uses'[d] = a /\ stage'[d] = "answer") <=> p = "answer"
      BY <1>1, <2>4, <3>2
    <3> QED
      BY <1>4, <2>2, <2>3, <2>4, <3>1, <3>3 DEF TalksOK
  <2>5. CASE a # b
    <3>1. past'[a] = past[a]
      BY <1>1, <2>5
    <3>2. \A d \in Calls : uses[d] = a => stage'[d] = stage[d]
      BY <1>1, <2>5
    <3> QED
      BY <2>1, <2>2, <2>3, <3>1, <3>2 DEF TalksOK
  <2> QED
    BY <2>4, <2>5
<1> QED
  BY <1>2, <1>3, <1>4 DEF BackendIInv

LEMMA RecordKeeps ==
    ASSUME BackendIInv, NEW c \in Calls, RecordQuestion(c) \/ RecordAnswer(c) PROVE BackendIInv'
<1> DEFINE role == IF stage[c] = "question" THEN "user" ELSE "assistant"
           p == IF stage[c] = "question" THEN "answer" ELSE "trim"
           b == uses[c]
           s == Append(past[b], <<role, c>>)
<1>1. /\ stage[c] \in {"question", "answer"} /\ Under(c)
      /\ stage' = [stage EXCEPT ![c] = p] /\ past' = [past EXCEPT ![b] = s]
      /\ UNCHANGED <<singleton, uses, sent, requests, errors, shared>>
  BY DEF RecordQuestion, RecordAnswer, Record, Under, Recording
<1>2. b \in Backends /\ past[b] \in Seq(Message) /\ <<role, c>> \in Message
  BY <1>1 DEF BackendIInv, BackendTypeOK, Message
<1>3. ASSUME b \notin shared
      PROVE  Alternates(s) /\ Len(s) % 2 = IF p = "answer" THEN 1 ELSE 0
  <2>1. TalksOK(b)
    BY <1>2, <1>3 DEF BackendIInv
  <2>2. \A d \in Calls : uses[d] = b /\ stage[d] = "answer" => d = c
    BY <1>1, <2>1 DEF TalksOK, Under, Recording
  <2>3. Len(past[b]) % 2 = IF stage[c] = "answer" THEN 1 ELSE 0
    <3>1. (\E d \in Calls : uses[d] = b /\ stage[d] = "answer") <=> stage[c] = "answer"
      BY <2>2
    <3> QED
      BY <2>1, <3>1 DEF TalksOK
  <2>4. Len(past[b]) \in Nat /\ Len(s) = Len(past[b]) + 1 /\ <<role, c>>[1] = role
    BY <1>2
  <2>5. PICK n \in Nat : n = Len(past[b])
    BY <2>4
  <2>6. (n + 1) % 2 = 1 - (n % 2)
    BY Parity
  <2>7. role = Role(n + 1) /\ (n + 1) % 2 = IF p = "answer" THEN 1 ELSE 0
    <3>1. CASE stage[c] = "question"
      <4>1. n % 2 = 0
        BY <2>3, <2>5, <3>1
      <4>2. (n + 1) % 2 = 1
        BY <2>6, <4>1
      <4> QED
        BY <3>1, <4>2 DEF Role
    <3>2. CASE stage[c] = "answer"
      <4>1. n % 2 = 1
        BY <2>3, <2>5, <3>2
      <4>2. (n + 1) % 2 = 0
        BY <2>6, <4>1
      <4> QED
        BY <3>2, <4>2 DEF Role
    <3> QED
      BY <1>1, <3>1, <3>2
  <2>8. Alternates(s)
    BY <1>2, <2>1, <2>4, <2>5, <2>7, AppendOK DEF TalksOK
  <2> QED
    BY <2>4, <2>5, <2>7, <2>8
<1>4. s \in Seq(Message) /\ p \in {"answer", "trim", "over"}
  BY <1>2
<1> HIDE DEF s, p, b
<1> QED
  BY <1>1, <1>2, <1>3, <1>4, HistoryKeeps DEF b

LEMMA TrimKeeps == ASSUME BackendIInv, NEW c \in Calls, TrimHistory(c) PROVE BackendIInv'
<1> DEFINE b == uses[c]
           s == Newest(past[b], Kept)
<1>1. /\ stage[c] = "trim" /\ Under(c)
      /\ stage' = [stage EXCEPT ![c] = "over"] /\ past' = [past EXCEPT ![b] = s]
      /\ UNCHANGED <<singleton, uses, sent, requests, errors, shared>>
  BY DEF TrimHistory, Under, Recording
<1>2. b \in Backends /\ past[b] \in Seq(Message)
  BY <1>1 DEF BackendIInv, BackendTypeOK
<1>3. s \in Seq(Message)
  BY <1>2, NewestOK, BackendAssumption
<1>4. ASSUME b \notin shared
      PROVE  Alternates(s) /\ Len(s) % 2 = 0
  <2>1. TalksOK(b)
    BY <1>2, <1>4 DEF BackendIInv
  <2>2. ~ \E d \in Calls : uses[d] = b /\ stage[d] = "answer"
    BY <1>1, <2>1 DEF TalksOK, Under, Recording
  <2>3. Len(past[b]) % 2 = 0 /\ Alternates(past[b])
    BY <2>1, <2>2 DEF TalksOK
  <2> QED
    BY <1>2, <2>3, NewestOK, BackendAssumption
<1> HIDE DEF s, b
<1> QED
  BY <1>1, <1>2, <1>3, <1>4, HistoryKeeps DEF b

LEMMA NextBackends == BackendIInv /\ [BackendStep]_backendVars => BackendIInv'
<1> SUFFICES ASSUME BackendIInv, [BackendStep]_backendVars PROVE BackendIInv'
  OBVIOUS
<1>1. CASE UNCHANGED backendVars
  <2>1. /\ UNCHANGED <<stage, singleton, uses, past, sent, requests, errors, shared>>
        /\ \A c \in Calls : Under(c)' = Under(c)
    BY <1>1 DEF backendVars, Under
  <2> QED
    BY <2>1 DEF BackendIInv, BackendTypeOK, TalksOK
<1>2. ASSUME NEW c \in GrokCalls, stage[c] = "idle", MissesBackend(c) PROVE BackendIInv'
  BY <1>2, MovesKeeps DEF MissesBackend, Calls, BackendIInv, BackendTypeOK
<1>3. ASSUME NEW c \in GrokCalls, stage[c] = "idle", FindsBackend(c) PROVE BackendIInv'
  <2>1. singleton \in GrokCalls /\ singleton' = singleton /\ ~Under(c)
    BY <1>3 DEF FindsBackend, BackendIInv, BackendTypeOK, Under, Recording
  <2> QED
    BY <1>3, <2>1, AskKeeps DEF FindsBackend, Calls, Backends
<1>4. ASSUME NEW c \in GrokCalls, CreateBackend(c) PROVE BackendIInv'
  <2>1. ~Under(c) /\ singleton' = c /\ Ask(c, c)
    BY <1>4 DEF CreateBackend, Under, Recording
  <2> QED
    BY <2>1, AskKeeps DEF Calls, Backends
<1>5. ASSUME NEW c \in ClaudeChats, AskClaude(c) PROVE BackendIInv'
  <2>1. ~Under(c) /\ singleton' = singleton /\ Ask(c, "claude")
    BY <1>5 DEF AskClaude, Under, Recording
  <2> QED
    BY <2>1, AskKeeps DEF Calls, Backends, BackendIInv, BackendTypeOK
<1>6. ASSUME NEW c \in Calls, GrokAnswers(c) \/ GrokFails(c) \/ ClaudeAnswers(c) \/ ClaudeFails(c)
      PROVE  BackendIInv'
  <2>1. /\ stage[c] = "asking" /\ Under(c)
        /\ \E p \in {"question", "failed"} : stage' = [stage EXCEPT ![c] = p]
        /\ UNCHANGED <<singleton, uses, past, sent, shared>>
    BY <1>6 DEF GrokAnswers, GrokFails, ClaudeAnswers, ClaudeFails, Under
  <2>2. requests' \in [GrokCalls -> Nat] /\ errors' \in [GrokCalls -> Nat]
    BY <1>6 DEF GrokAnswers, GrokFails, ClaudeAnswers, ClaudeFails, BackendIInv, BackendTypeOK
  <2> QED
    BY <2>1, <2>2, MovesKeeps
<1> QED
  BY <1>1, <1>2, <1>3, <1>4, <1>5, <1>6, RecordKeeps, TrimKeeps
     DEF BackendStep, ConsultGrok, RunGrokQuery, Calls, GrokCalls

----------------------------------------------------------------------------
\* The inductive invariant of the back ends holds however their calls overlap and fail.
THEOREM BackendInvariant == BackendSpec => []BackendIInv
<1> QED
  BY InitBackends, NextBackends, PTL DEF BackendSpec

\* The variables of the back ends keep their types.
THEOREM BackendTypeCorrect == BackendSpec => []BackendTypeOK
<1>1. BackendIInv => BackendTypeOK
  BY DEF BackendIInv
<1> QED
  BY <1>1, BackendInvariant, PTL

\* Without an overlap a question goes out with a conversation, whatever fails and
\* however long the history grows (timmy/backends.py).
THEOREM ContextsAreConversations == BackendSpec => []ContextIsConversation
<1>1. BackendIInv => ContextIsConversation
  BY DEF BackendIInv, BackendTypeOK, TalksOK, Alternates, Role, ContextIsConversation
<1> QED
  BY <1>1, BackendInvariant, PTL

----------------------------------------------------------------------------
(***************************************************************************)
(* The choice of a model.                                                  *)
(***************************************************************************)

(* Choosing a model. *)

\* The first wanted element of a list, or none if it has none.
LEMMA FirstWanted ==
    ASSUME NEW S, NEW s \in Seq(S), NEW wanted
    PROVE  \/ /\ \A i \in 1..Len(s) : s[i] \notin wanted
              /\ FirstIn(s, wanted) = NoModelName
           \/ \E i \in 1..Len(s) : s[i] \in wanted /\ FirstIn(s, wanted) = s[i]
<1> DEFINE I == {i \in 1..Len(s) : s[i] \in wanted}
<1>1. FirstIn(s, wanted) =
          LET i == IF I # {} THEN Min(I) ELSE 0 IN IF i = 0 THEN NoModelName ELSE s[i]
  BY DEF FirstIn, SelectInSeq
<1>2. CASE I = {}
  BY <1>1, <1>2
<1>3. CASE I # {}
  <2>1. I \in SUBSET Nat
    BY DEF I
  <2>2. \E k \in I : \A y \in I : k <= y
    BY <1>3, <2>1, Smallest
  <2>3. Min(I) \in I
    BY <2>2 DEF Min
  <2>4. Min(I) # 0 /\ Min(I) \in 1..Len(s) /\ s[Min(I)] \in wanted
    BY <2>3
  <2>5. FirstIn(s, wanted) = s[Min(I)]
    <3> HIDE DEF I
    <3> QED BY <1>1, <1>3, <2>4
  <2> QED BY <2>4, <2>5
<1> QED BY <1>2, <1>3

\* A provider's models are a sequence of entries.
LEMMA ProviderEntries ==
    ASSUME NEW ms \in ProviderModels
    PROVE  ms \in Seq(ModelEntry) /\ (\A i \in 1..Len(ms) : ms[i] \in ModelEntry)
               /\ DOMAIN ms = 1..Len(ms)
<1>1. PICK n \in 0..2 : ms \in [1..n -> ModelEntry]
  <2>1. CASE ms = <<>>
    <3>1. ms \in [1..0 -> ModelEntry]
      BY <2>1
    <3> QED BY <3>1
  <2> QED BY <2>1 DEF ProviderModels
<1>2. ms \in Seq(ModelEntry)
  <2>1. n \in Nat
    BY <1>1
  <2> QED BY <1>1, <2>1, SeqDef
<1> QED BY <1>2

\* The default model of a provider that has models.
LEMMA DefaultIsAModel ==
    ASSUME NEW ms \in ProviderModels, ms # <<>>
    PROVE  DefaultModel(ms) \in Models
<1> DEFINE W == {x \in ToSet(ms) : x.default}
           e == FirstIn(ms, W)
<1>1. /\ ms \in Seq(ModelEntry) /\ DOMAIN ms = 1..Len(ms)
      /\ \A i \in 1..Len(ms) : ms[i] \in ModelEntry
  BY ProviderEntries
<1>2. e = NoModelName \/ \E i \in 1..Len(ms) : e = ms[i]
  BY <1>1, FirstWanted
<1>3. DefaultModel(ms) = IF e # NoModelName THEN e.name ELSE ms[1].name
  BY DEF DefaultModel
<1>4. 1 \in 1..Len(ms)
  BY <1>1
<1>5. \A x \in ModelEntry : x.name \in Models
  BY DEF ModelEntry
<1> HIDE DEF e
<1>6. ms[1].name \in Models
  BY <1>1, <1>4, <1>5
<1>7. CASE e # NoModelName
  BY <1>1, <1>2, <1>3, <1>5, <1>7
<1> QED BY <1>3, <1>6, <1>7

\* A provider with an entry that can see has a name to offer for an image, the one
\* of such an entry.
LEMMA VisionIsOffered ==
    ASSUME NEW ms \in ProviderModels, NEW i \in DOMAIN ms, ms[i].vision
    PROVE  \E j \in DOMAIN ms : ModelWithVision(ms) = ms[j].name /\ ms[j].vision
<1> DEFINE W == {x \in ToSet(ms) : x.vision}
           e == FirstIn(ms, W)
<1>1. /\ ms \in Seq(ModelEntry) /\ DOMAIN ms = 1..Len(ms)
      /\ \A k \in 1..Len(ms) : ms[k] \in ModelEntry
  BY ProviderEntries
<1>2. ms[i] \in W
  BY DEF ToSet
<1>3. PICK j \in 1..Len(ms) : ms[j] \in W /\ e = ms[j]
  BY <1>1, <1>2, FirstWanted
<1>4. e # NoModelName
  BY <1>1, <1>3, ModelsAssumption DEF ModelEntry
<1>5. ModelWithVision(ms) = e.name
  BY <1>4 DEF ModelWithVision
<1>6. ms[j].vision
  BY <1>3
<1> HIDE DEF e
<1> QED BY <1>1, <1>3, <1>5, <1>6

\* model_has_capability() is true of names of entries that can see.
LEMMA HasVisionOfEntry ==
    ASSUME NEW ms \in ProviderModels, NEW m, HasVision(ms, m)
    PROVE  \E j \in DOMAIN ms : ms[j].name = m /\ ms[j].vision
<1> DEFINE W == {x \in ToSet(ms) : x.name = m}
           e == FirstIn(ms, W)
<1>1. ms \in Seq(ModelEntry) /\ DOMAIN ms = 1..Len(ms)
  BY ProviderEntries
<1>2. e # NoModelName /\ e.vision
  BY DEF HasVision
<1>3. PICK j \in 1..Len(ms) : ms[j] \in W /\ e = ms[j]
  BY <1>1, <1>2, FirstWanted
<1>4. ms[j].name = m
  BY <1>3
<1> HIDE DEF e
<1> QED BY <1>1, <1>2, <1>3, <1>4

\* An image goes to a model that can see if the provider has one: whichever model
\* the caller prefers, and however the manager and the configuration disagree.
LEMMA RoutedToSight == ImageIsRouted
<1> SUFFICES ASSUME NEW ms \in ProviderModels, NEW preferred \in Models \cup {NoModelName},
                    NEW i \in DOMAIN ms, ms[i].vision
             PROVE  LET m == SelectedModel("ollama", ms, preferred, DetectContentType(TRUE, FALSE))
                    IN  Supports(m) \/ \E j \in DOMAIN ms : ms[j].name = m /\ ms[j].vision
  BY DEF ImageIsRouted
<1> DEFINE first == IF preferred # NoModelName THEN preferred ELSE DefaultModel(ms)
           other == GetFallbackModel(ms, first)
           m == SelectedModel("ollama", ms, preferred, DetectContentType(TRUE, FALSE))
<1>1. DetectContentType(TRUE, FALSE) = "vision"
  BY DEF DetectContentType
<1>2. m = IF first # NoModelName /\ ~Supports(first) /\ other # NoModelName THEN other ELSE first
  BY <1>1 DEF SelectedModel
<1>3. first \in Models /\ first # NoModelName
  BY DefaultIsAModel, ModelsAssumption
<1>4. PICK j \in DOMAIN ms : ModelWithVision(ms) = ms[j].name /\ ms[j].vision
  BY VisionIsOffered
<1>5. ModelWithVision(ms) # NoModelName
  BY <1>4, ProviderEntries, ModelsAssumption DEF ModelEntry
<1>6. CASE Supports(first)
  BY <1>2, <1>6
<1>7. CASE ~Supports(first) /\ ModelWithVision(ms) # first
  <2>1. other = ModelWithVision(ms)
    BY <1>5, <1>7 DEF GetFallbackModel
  <2> QED BY <1>2, <1>3, <1>4, <1>5, <1>7, <2>1
<1>8. CASE ~Supports(first) /\ ModelWithVision(ms) = first
  <2> DEFINE W == {x \in Models : HasVision(ms, x)}
  <2>1. other = FirstIn(FallbackChain, W)
    BY <1>5, <1>8 DEF GetFallbackModel
  <2>2. CASE other = NoModelName
    BY <1>2, <1>4, <1>8, <2>2
  <2>3. CASE other # NoModelName
    <3>1. other \in W
      BY <2>1, <2>3, FirstWanted, ModelsAssumption
    <3>2. HasVision(ms, other)
      BY <3>1
    <3>3. m = other
      BY <1>2, <1>3, <1>8, <2>3
    <3> QED BY <3>2, <3>3, HasVisionOfEntry, ZenonT(60)
  <2> QED BY <2>2, <2>3
<1> QED BY <1>6, <1>7, <1>8

----------------------------------------------------------------------------
(* The manager. *)

\* No blind substitute for an image while a model that sees is listed.
SubstituteSees ==
    given.image /\ given.model # given.asked =>
        Supports(given.model) \/ listed \cap Seeing = {}

ChoiceIInv == ChoiceTypeOK /\ SubstituteSees

\* What get_best_model_for() may answer is listed; for an image it sees, and it is
\* there as soon as a listed model sees.
LEMMA BestSees ==
    ASSUME NEW image \in BOOLEAN, ChoiceTypeOK
    PROVE  /\ BestModels(image) \subseteq listed
           /\ image => BestModels(image) \subseteq Seeing
           /\ image /\ BestModels(image) = {} => listed \cap Seeing = {}
<1> DEFINE inChain == FirstIn(VisionChain, listed)
<1>1. BestModels(image) =
          IF image /\ inChain # NoModelName THEN {inChain} ELSE Capable(image)
  BY DEF BestModels
<1>2. /\ Capable(image) \subseteq listed
      /\ image => Capable(image) = listed \cap Seeing
  BY DEF Capable, Supports, KnownToSee
<1>3. inChain # NoModelName => inChain \in listed /\ inChain \in Seeing
  BY FirstWanted, ModelsAssumption
<1> HIDE DEF inChain
<1> QED BY <1>1, <1>2, <1>3

LEMMA InitChoiceIInv == ChoiceInit => ChoiceIInv
BY DEF ChoiceInit, ChoiceIInv, ChoiceTypeOK, SubstituteSees, NoAnswer

LEMMA NextChoiceIInv == ChoiceIInv /\ [ChoiceNext]_choiceVars => ChoiceIInv'
<1> SUFFICES ASSUME ChoiceIInv, [ChoiceNext]_choiceVars PROVE ChoiceIInv'
  OBVIOUS
<1> USE ModelsAssumption DEF ChoiceIInv
<1>1. ASSUME NEW m \in Models, NEW image \in BOOLEAN, GiveAvailable(m, image)
      PROVE  ChoiceIInv'
  BY <1>1 DEF GiveAvailable, Give, ChoiceTypeOK, SubstituteSees
<1>2. ASSUME NEW m \in Models, NEW image \in BOOLEAN, PullModel(m, image)
      PROVE  ChoiceIInv'
  BY <1>2 DEF PullModel, Give, ChoiceTypeOK, SubstituteSees
<1>3. ASSUME NEW m \in Models, NEW image \in BOOLEAN, GiveFallback(m, image)
      PROVE  ChoiceIInv'
  <2>1. /\ served' = served /\ listed' = listed
    BY <1>3 DEF GiveFallback
  <2>2. \/ \E f \in BestModels(image) : Give(m, image, f, TRUE)
        \/ /\ BestModels(image) = {}
           /\ \E f \in Models, b \in BOOLEAN : Give(m, image, f, b)
    BY <1>3 DEF GiveFallback
  <2>3. CASE \E f \in BestModels(image) : Give(m, image, f, TRUE)
    <3>1. PICK f \in BestModels(image) : Give(m, image, f, TRUE)
      BY <2>3
    <3>2. f \in Models /\ (image => f \in Seeing)
      BY <3>1, BestSees DEF ChoiceTypeOK
    <3> QED BY <2>1, <3>1, <3>2 DEF Give, ChoiceTypeOK, SubstituteSees, Supports, KnownToSee
  <2>4. CASE BestModels(image) = {} /\ \E f \in Models, b \in BOOLEAN : Give(m, image, f, b)
    <3>1. PICK f \in Models, b \in BOOLEAN : Give(m, image, f, b)
      BY <2>4
    <3>2. image => listed \cap Seeing = {}
      BY <2>4, BestSees
    <3> QED BY <2>1, <3>1, <3>2 DEF Give, ChoiceTypeOK, SubstituteSees
  <2> QED BY <2>2, <2>3, <2>4
<1>4. CASE RefreshModels
  BY <1>4 DEF RefreshModels, NoAnswer, ChoiceTypeOK, SubstituteSees
<1>5. CASE OllamaChanges
  BY <1>5 DEF OllamaChanges, ChoiceTypeOK, SubstituteSees
<1>6. CASE UNCHANGED choiceVars
  BY <1>6 DEF choiceVars, ChoiceTypeOK, SubstituteSees
<1> QED BY <1>1, <1>2, <1>3, <1>4, <1>5, <1>6 DEF ChoiceNext

\* The inductive invariant of the manager.
THEOREM ChoiceInvariant == ChoiceSpec => []ChoiceIInv
<1> QED BY InitChoiceIInv, NextChoiceIInv, PTL DEF ChoiceSpec

\* The manager's lists hold names of models, and its answers are models.
THEOREM ChoiceTypeCorrect == ChoiceSpec => []ChoiceTypeOK
<1>1. ChoiceIInv => ChoiceTypeOK
  BY DEF ChoiceIInv
<1> QED BY <1>1, ChoiceInvariant, PTL

\* An image is not sent to a blind model while one that sees is at hand: not by the
\* router (complete()), nor does the manager (get_model_for_content()) replace the
\* model it was asked for by a blind one while it lists a seeing one.
THEOREM ImagesAreSeen == ChoiceSpec => []ImageIsSeen
<1>1. ChoiceIInv => ImageIsSeen
  BY RoutedToSight DEF ChoiceIInv, SubstituteSees, ImageIsSeen
<1> QED BY <1>1, ChoiceInvariant, PTL

----------------------------------------------------------------------------
(* Side by side.                                                          *)
LEMMA ChatsCompose ==
    ChatsSpec => (Init /\ [][Next]_vars) /\ BackendSpec /\ ChoiceSpec
<1>1. ChatsInit => Init /\ BackendInit /\ ChoiceInit
  BY DEF ChatsInit
<1>2. [ChatsNext]_<<vars, backendVars, choiceVars>> =>
          [Next]_vars /\ [BackendStep]_backendVars /\ [ChoiceNext]_choiceVars
  BY DEF ChatsNext, BackendNext
<1> QED BY <1>1, <1>2, PTL DEF ChatsSpec, BackendSpec, ChoiceSpec

\* Side by side too: the log is made of exchanges, the memory is whole, what goes along
\* with a question is a conversation, and an image goes to a model that sees it.
THEOREM ChatsCorrect ==
    ChatsSpec => [](LogIsExchanges /\ MemoryIsWhole /\ ContextIsConversation /\ ImageIsSeen)
<1> QED BY ChatsCompose, LogsExchanges, MemoryWhole, ContextsAreConversations, ImagesAreSeen, PTL
=============================================================================
