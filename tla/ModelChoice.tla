----------------------------- MODULE ModelChoice -----------------------------
(***************************************************************************)
(* Which model gets a request: CascadeRouter.complete() with the models of *)
(* a provider (infrastructure/router/cascade.py), and the multi-modal      *)
(* manager that knows what models can do and which of them Ollama has      *)
(* (infrastructure/models/multimodal.py).                                  *)
(*                                                                         *)
(* Of the capabilities only vision is ever asked for.  The manager tells   *)
(* it from the name of a model, the router from the configuration of the   *)
(* provider, and the two need not agree.  What the router picks depends on *)
(* its inputs alone, so it is a function here; the manager has a state,    *)
(* the models it has seen at Ollama, which it never removes.               *)
(***************************************************************************)
EXTENDS Naturals, Sequences, SequencesExt, FiniteSets

CONSTANTS
    Models,          \* names of models
    Seeing,          \* the names that KNOWN_MODEL_CAPABILITIES says can see
    VisionChain,     \* DEFAULT_FALLBACK_CHAINS[VISION]
    FallbackChain,   \* fallback_chains.vision of the router's configuration
    OllamaModel,     \* settings.ollama_model
    NoModelName           \* None

ASSUME ModelsAssumption ==
    /\ Seeing \subseteq Models /\ OllamaModel \in Models
    \* None is neither a name nor an entry of a provider.
    /\ NoModelName \notin Models \cup [name : Models, vision : BOOLEAN, default : BOOLEAN]
    /\ FallbackChain \in Seq(Models)
    \* The chain of the code holds models that it knows to see.
    /\ VisionChain \in Seq(Seeing)

VARIABLES
    served,    \* the models that Ollama has
    listed,    \* MultiModalManager._available_models
    given      \* the last answer of the manager since it looked, and what it was asked

choiceVars == <<served, listed, given>>

----------------------------------------------------------------------------
(* Both. *)
FirstIn(s, wanted) ==
    LET i == SelectInSeq(s, LAMBDA x : x \in wanted) IN IF i = 0 THEN NoModelName ELSE s[i]

\* The table says so of the name, with its tag or without.
KnownToSee(m) == m \in Seeing

\* model_supports(m, VISION): an unknown model reads text only, and whether the
\* model is available makes no difference.
Supports(m) == KnownToSee(m)

----------------------------------------------------------------------------
(* The router.  A provider's models are a sequence of entries of its       *)
(* configuration.                                                          *)
ModelEntry == [name : Models, vision : BOOLEAN, default : BOOLEAN]
ProviderModels == {<<>>} \cup [1 .. 1 -> ModelEntry] \cup [1 .. 2 -> ModelEntry]

DefaultModel(ms) ==
    LET e == FirstIn(ms, {x \in ToSet(ms) : x.default})
    IN  IF e # NoModelName THEN e.name ELSE IF ms # <<>> THEN ms[1].name ELSE NoModelName

\* Mutant: the capability is looked up in the default model alone.
DefaultOnly(ms) == DefaultModel(ms)

ModelWithVision(ms) ==
    LET e == FirstIn(ms, {x \in ToSet(ms) : x.vision})
    IN  IF e # NoModelName THEN e.name ELSE DefaultModel(ms)

\* model_has_capability(): of the entries with this name the first counts.
HasVision(ms, m) ==
    LET e == FirstIn(ms, {x \in ToSet(ms) : x.name = m}) IN e # NoModelName /\ e.vision

GetFallbackModel(ms, original) ==
    IF ModelWithVision(ms) \notin {NoModelName, original}
    THEN ModelWithVision(ms)
    ELSE FirstIn(FallbackChain, {m \in Models : HasVision(ms, m)})

DetectContentType(image, audio) ==
    CASE image /\ audio -> "multimodal"
      [] image /\ ~audio -> "vision"
      [] ~image /\ audio -> "audio"
      [] OTHER -> "text"

\* The selection in complete(), for the model that the caller prefers.
SelectedModel(type, ms, preferred, content) ==
    LET first == IF preferred # NoModelName THEN preferred ELSE DefaultModel(ms)
        other == GetFallbackModel(ms, first)
    IN  IF /\ type = "ollama" /\ content = "vision"
           /\ first # NoModelName /\ ~Supports(first) /\ other # NoModelName
        THEN other ELSE first

----------------------------------------------------------------------------
(* The manager. *)
NoAnswer == [asked |-> NoModelName, image |-> FALSE, model |-> NoModelName, fallback |-> FALSE]

ChoiceTypeOK ==
    /\ served \subseteq Models /\ listed \subseteq Models
    /\ given \in {NoAnswer} \cup
                 [asked : Models, image : BOOLEAN, model : Models, fallback : BOOLEAN]

\* Every other start is a later state of this one.
ChoiceInit ==
    /\ served = {}
    /\ listed = {}
    /\ given = NoAnswer

\* get_models_with_capability(): every model reads text.
Capable(image) == {m \in listed : image => Supports(m)}

\* get_best_model_for(), of a model that is not available: the chain of the
\* capability, else the smallest of those that have it.
BestModels(image) ==
    LET inChain == FirstIn(VisionChain, listed)
    IN  IF image /\ inChain # NoModelName THEN {inChain} ELSE Capable(image)

\* get_model_for_content(), of an image or of anything else.
Give(asked, image, model, fallback) ==
    given' = [asked |-> asked, image |-> image, model |-> model, fallback |-> fallback]

\* The model is available, ...
GiveAvailable(m, image) ==
    /\ m \in listed
    /\ Give(m, image, m, FALSE)
    /\ UNCHANGED <<served, listed>>

\* ... or can be pulled - and then Ollama is asked again what it has, in vain if
\* that fails - ...
PullModel(m, image) ==
    /\ m \notin listed
    /\ served' = served \cup {m}
    /\ listed' \in {listed, listed \cup served'}
    /\ Give(m, image, m, FALSE)

\* ... or is replaced by another, the default one in the end.
GiveFallback(m, image) ==
    /\ m \notin listed
    /\ IF BestModels(image) # {}
       THEN \E f \in BestModels(image) : Give(m, image, f, TRUE)
       ELSE IF OllamaModel \in listed
            THEN Give(m, image, OllamaModel, TRUE)
            ELSE Give(m, image, m, FALSE)
    /\ UNCHANGED <<served, listed>>

\* refresh(): what is gone stays listed.
RefreshModels ==
    /\ listed' = listed \cup served
    /\ given' = NoAnswer
    /\ UNCHANGED served

\* The owner pulls or removes a model.
OllamaChanges ==
    /\ \E m \in Models : served' \in {served \cup {m}, served \ {m}}
    /\ UNCHANGED <<listed, given>>

ChoiceNext ==
    \/ \E m \in Models, image \in BOOLEAN :
          GiveAvailable(m, image) \/ PullModel(m, image) \/ GiveFallback(m, image)
    \/ RefreshModels
    \/ OllamaChanges

ChoiceSpec == ChoiceInit /\ [][ChoiceNext]_choiceVars

----------------------------------------------------------------------------
\* The router's part of it: it sends an image to a model that the manager or the
\* configuration says can see, whichever model the caller prefers and however the
\* two disagree, if the provider has one.
ImageIsRouted ==
    \A ms \in ProviderModels, preferred \in Models \cup {NoModelName} :
        LET m == SelectedModel("ollama", ms, preferred, DetectContentType(TRUE, FALSE))
        IN  (\E i \in DOMAIN ms : ms[i].vision) =>
                Supports(m) \/ \E i \in DOMAIN ms : ms[i].name = m /\ ms[i].vision

\* An image is not sent to a blind model while one that sees is at hand: not by
\* the router, and the manager never replaces the model it was asked for by a
\* blind one as long as it lists a seeing one.
ImageIsSeen ==
    /\ ImageIsRouted
    /\ given.image /\ given.model # given.asked =>
          Supports(given.model) \/ listed \cap Seeing = {}
=============================================================================
