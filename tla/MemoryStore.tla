---------------------------- MODULE MemoryStore ----------------------------
(***************************************************************************)
(* The memory store (timmy/memory/vector_store.py): the table              *)
(* memory_entries, the tools of the agent that write, read and search it   *)
(* (timmy/semantic_memory.py), the page that edits its facts               *)
(* (dashboard/routes/memory.py), and the pruning at the start of the       *)
(* dashboard (dashboard/app.py).                                           *)
(*                                                                         *)
(* An entry is found by its embedding.  With the library the embedding is  *)
(* a function of the text.  Without it, and whenever the library's call    *)
(* fails, the trigrams of the text are hashed with Python's hash(), which  *)
(* every process salts anew, and a text too short for a trigram has the    *)
(* zero vector.  So a vector is modelled as its text, which stands for all *)
(* the texts that have that vector, with what it was made with.  Equal     *)
(* vectors have the score 1, the zero vector has 0 with every other and    *)
(* with itself; what the score of two others is, and the unrelated entries *)
(* that may follow the related ones in a result, is left out, as are       *)
(* sources, agents and sessions.                                           *)
(*                                                                         *)
(* Each operation is one statement on the table: one action, whichever     *)
(* thread makes it.                                                        *)
(***************************************************************************)
EXTENDS Naturals, FiniteSets, Filters

CONSTANTS
    Entries,     \* the ids uuid4() may draw
    Texts,       \* contents
    Short,       \* those under three characters
    Salts,       \* the salts of hash(), one drawn by each process
    Library,     \* in a vector, the mark of sentence_transformers
    KeepFacts,   \* settings.memory_prune_keep_facts
    Limit,       \* the results that a search is asked for
    Factor       \* candidates for each result (3)

ASSUME StoreAssumption ==
    /\ KeepFacts \in BOOLEAN
    /\ Limit \in Nat \ {0} /\ Factor \in Nat \ {0}
    /\ Short \subseteq Texts
    /\ Library \notin Salts

VARIABLES
    salt,      \* of the process
    encodes,     \* has the process the library
    order,     \* the rows, oldest first
    entry,     \* the rows: context_type, content and embedding
    old,       \* the rows older than settings.memory_prune_days
    written    \* history: the rows that this process has written, with the library
               \* if it has it, and that nobody edited since

storeVars == <<salt, encodes, order, entry, old, written>>

----------------------------------------------------------------------------
Kinds == {"fact", "conversation"}    \* and "document", treated like a conversation
Zero == <<"zero">>
Vectors == (Texts \X (Salts \cup {Library})) \cup {Zero}
MemoryEntry == [kind : Kinds, content : Texts, embedding : Vectors]
NoEntry == [kind |-> "none"]
Stored == Elements(order)

\* Types; the rows are those of the order, and the old ones come first.
StoreTypeOK ==
    /\ salt \in Salts /\ encodes \in BOOLEAN
    /\ order \in Seq(Entries) /\ Injective(order)
    /\ entry \in [Entries -> MemoryEntry \cup {NoEntry}]
    /\ \A e \in Entries : e \in Stored <=> entry[e] # NoEntry
    /\ \E n \in 0 .. Len(order) : old = {order[i] : i \in 1 .. n}
    /\ written \subseteq Stored

StoreInit ==
    /\ salt \in Salts /\ encodes \in BOOLEAN
    /\ order = <<>> /\ old = {} /\ written = {}
    /\ entry = [e \in Entries |-> NoEntry]

----------------------------------------------------------------------------
(* Searching. *)
\* _compute_embedding: encoded if the process has the library and its call succeeds.
ComputeEmbedding(content, s, encoded) ==
    IF encoded THEN <<content, Library>>
    ELSE IF content \in Short THEN Zero ELSE <<content, s>>

\* The context_type that the memory page asks for; memory_search asks for "any".
OfKind(k) == {e \in Entries : k \in {"any", entry[e].kind}}

\* Mutant: the filter comes after ORDER BY timestamp DESC LIMIT.
CandidatesOfAll(k) ==
    Filter(LastN(order, Limit * Factor), OfKind(k))

\* WHERE context_type = k ORDER BY timestamp DESC LIMIT limit * 3, oldest first here.
Candidates(k) ==
    LastN(Filter(order, OfKind(k)), Limit * Factor)

Embedded(vector) == {e \in Stored : entry[e].embedding = vector /\ vector # Zero}

\* search_memories: of the related candidates the newest come first.
SearchMemories(query, k, encoded) ==
    LET related == Embedded(ComputeEmbedding(query, salt, encoded))
    IN  Elements(LastN(Filter(Candidates(k), related), Limit))

----------------------------------------------------------------------------
(* The operations. *)
Insert(e, k, content, vector) ==
    /\ e \notin Stored
    /\ order' = Append(order, e)
    /\ entry' = [entry EXCEPT ![e] = [kind |-> k, content |-> content, embedding |-> vector]]

\* The tool memory_write, and POST /memory/fact; the call of the library may fail.
StoreMemory(e, k, content, encoded) ==
    /\ encoded => encodes
    /\ Insert(e, k, content, ComputeEmbedding(content, salt, encoded))
    /\ written' = IF encoded = encodes THEN written \cup {e} ELSE written
    /\ UNCHANGED <<salt, encodes, old>>

\* The same in another process on the table, the command line's for one.
StoreMemoryElsewhere(e, k, content) ==
    /\ \E vector \in {ComputeEmbedding(content, s, encoded) :
                        s \in Salts \ {salt}, encoded \in BOOLEAN} :
          Insert(e, k, content, vector)
    /\ UNCHANGED <<salt, encodes, old, written>>

\* PUT /memory/fact/{id}: the embedding stays that of the old content.
UpdatePersonalFact(e, content) ==
    /\ entry[e].kind = "fact"
    /\ entry' = [entry EXCEPT ![e].content = content]
    /\ written' = written \ {e}
    /\ UNCHANGED <<salt, encodes, order, old>>

Keep(kept) ==
    /\ order' = Filter(order, kept)
    /\ entry' = [e \in Entries |-> IF e \in kept THEN entry[e] ELSE NoEntry]
    /\ old' = old \cap kept

\* DELETE /memory/fact/{id}, which deletes an entry of any kind.
DeleteMemory(e) ==
    /\ e \in Stored
    /\ Keep(Stored \ {e})
    /\ written' = written \ {e}
    /\ UNCHANGED <<salt, encodes>>

\* prune_memories.
Pruned == {e \in old : KeepFacts => entry[e].kind # "fact"}

\* The dashboard starts, and prunes unless that is turned off or fails.
StartStore ==
    /\ salt' \in Salts /\ encodes' \in BOOLEAN
    /\ Keep(Stored \ Pruned) \/ UNCHANGED <<order, entry, old>>
    /\ written' = {}

\* The oldest row that is not old yet becomes so.
GrowsOld ==
    /\ \E i \in DOMAIN order : old = {order[j] : j \in 1 .. i - 1} /\ old' = old \cup {order[i]}
    /\ UNCHANGED <<salt, encodes, order, entry, written>>

StoreOperation ==
    \/ \E e \in Entries, k \in Kinds, t \in Texts :
          \/ \E encoded \in BOOLEAN : StoreMemory(e, k, t, encoded)
          \/ StoreMemoryElsewhere(e, k, t)
    \/ \E e \in Entries, t \in Texts : UpdatePersonalFact(e, t)
    \/ \E e \in Entries : DeleteMemory(e)
    \/ GrowsOld

StoreSpec == StoreInit /\ [][StoreOperation \/ StartStore]_storeVars

----------------------------------------------------------------------------
(* memory_write says "This is now searchable across all channels.": what   *)
(* this process wrote and nobody edited is found by its text, among its    *)
(* kind and among all, whatever was stored since and whoever deleted,      *)
(* edited or pruned the rest, unless too many of the rows that are asked   *)
(* for are newer or as many as are asked for are equal.  It is not so of   *)
(* an entry that was edited, or written before the last start, of a text   *)
(* too short for the hash, nor when the library's call fails for the entry *)
(* or for the search.                                                      *)
NewerThan(e, k) ==
    LET same == Filter(order, OfKind(k))
        at == CHOOSE i \in DOMAIN same : same[i] = e
    IN  SubSeq(same, at + 1, Len(same))

WrittenIsFound ==
    \A e \in written : \A k \in {entry[e].kind, "any"} :
        LET newer == NewerThan(e, k)
            equal == Filter(newer, Embedded(entry[e].embedding))
        IN  /\ encodes \/ entry[e].content \notin Short
            /\ Len(newer) < Limit * Factor /\ Len(equal) < Limit
            => e \in SearchMemories(entry[e].content, k, encodes)
=============================================================================
