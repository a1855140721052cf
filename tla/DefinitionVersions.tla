------------------------ MODULE DefinitionVersions ------------------------
(***************************************************************************)
(* Versions that governance drafts, publishes and retires: those of a      *)
(* tenant's workflow definitions (workflow.service.ts) and of its prompt   *)
(* templates (assessment.service.ts of ai-assessment-service), and what    *)
(* was started under them.  Both services read the version's status and    *)
(* then write its row by primary key, so two requests may pass their       *)
(* checks and write in either order.                                       *)
(***************************************************************************)
EXTENDS Naturals, FiniteSets

CONSTANTS
    Definitions, Prompts, \* workflow definitions, prompt templates
    Editors,              \* requests of administrators under way
    MaxNumber,            \* bound on the versions of a template
    MaxContents,          \* bound on the contents written
    MaxPins               \* bound on what is started

ASSUME DefinitionsAssumption ==
    Definitions \intersect Prompts = {} /\ {MaxNumber, MaxContents, MaxPins} \subseteq Nat

Templates == Definitions \union Prompts
VersionIds == Templates \X (1..MaxNumber)

VARIABLES
    text,       \* the version rows: [status, content]
    contents,   \* contents written so far: each is new
    isDefault,  \* definitions with the flag
    public,     \* definitions whose own status is PUBLISHED
    editor,     \* where each request is: [pc, version, flag], the flag as it read it
    pins,       \* instances and assessments: [version, content] as they were started
    retiredOnce, crossed, \* versions retired at any time; published across another request
    hadDefault, flagMoved \* a default was published; a flag changed under a publication

flagVars == <<isDefault, public, hadDefault, flagMoved>>
historyVars == <<retiredOnce, crossed>>
definitionVars == <<text, contents, flagVars, editor, pins, historyVars>>

Missing == [status |-> "NONE", content |-> 0]
EditorIdle == [pc |-> "idle", version |-> CHOOSE v \in VersionIds : TRUE, flag |-> FALSE]

\* A tenant that has drafted nothing yet; its definitions may be drafted as defaults.
DefinitionsInit ==
    /\ text = [v \in VersionIds |-> Missing] /\ contents = 0
    /\ isDefault \in SUBSET Definitions /\ public = {}
    /\ editor = [e \in Editors |-> EditorIdle] /\ pins = {}
    /\ retiredOnce = {} /\ crossed = {} /\ hadDefault = FALSE /\ flagMoved = FALSE

EditorMoves(e, pc, v, flag) == editor' = [editor EXCEPT ![e] = [pc |-> pc, version |-> v, flag |-> flag]]
EditorRests(e) == editor' = [editor EXCEPT ![e] = EditorIdle]
EditorAt(e, pc) == editor[e].pc = pc

----------------------------------------------------------------------------
(* Drafts. *)

\* createVersion, createPromptVersion: the number after the highest.
EnterCreate(e, t) ==
    /\ EditorAt(e, "idle")
    /\ \E n \in 1..MaxNumber :
          /\ text[<<t, n>>].status = "NONE" /\ \A k \in 1..(n - 1) : text[<<t, k>>].status # "NONE"
          /\ EditorMoves(e, "create", <<t, n>>, FALSE)
    /\ UNCHANGED <<text, contents, flagVars, pins, historyVars>>

\* The unique index refuses a number that is taken by then.
CommitCreate(e) ==
    LET v == editor[e].version IN
    /\ EditorAt(e, "create") /\ contents < MaxContents
    /\ IF text[v].status = "NONE"
       THEN /\ text' = [text EXCEPT ![v] = [status |-> "DRAFT", content |-> contents + 1]]
            /\ contents' = contents + 1
       ELSE UNCHANGED <<text, contents>>
    /\ EditorRests(e)
    /\ UNCHANGED <<flagVars, pins, historyVars>>

\* Seeded fault: the status is not looked at.
EnterUpdateAny(e, v) ==
    /\ EditorAt(e, "idle") /\ text[v].status # "NONE" /\ EditorMoves(e, "update", v, FALSE)
    /\ UNCHANGED <<text, contents, flagVars, pins, historyVars>>
\* updateVersion, updatePromptVersion: a draft alone may be changed ...
EnterUpdate(e, v) ==
    /\ EditorAt(e, "idle") /\ text[v].status = "DRAFT" /\ EditorMoves(e, "update", v, FALSE)
    /\ UNCHANGED <<text, contents, flagVars, pins, historyVars>>

\* ... but the write goes to the row whatever its status is by then.
CommitUpdate(e) ==
    /\ EditorAt(e, "update") /\ contents < MaxContents
    /\ text' = [text EXCEPT ![editor[e].version].content = contents + 1]
    /\ contents' = contents + 1 /\ EditorRests(e)
    /\ UNCHANGED <<flagVars, pins, historyVars>>

\* updateDefinition: one conditional write, while the definition is a draft.
Flag(d) ==
    /\ d \in Definitions \ public
    /\ \E D \in {isDefault \union {d}, isDefault \ {d}} : D # isDefault /\ isDefault' = D
    /\ UNCHANGED <<text, contents, public, hadDefault, flagMoved, editor, pins, historyVars>>

----------------------------------------------------------------------------
(* Publication. *)

\* publishVersion, publishPromptVersion: a draft; of a definition the flag is read too.
EnterPublish(e, v) ==
    /\ EditorAt(e, "idle") /\ text[v].status = "DRAFT"
    /\ EditorMoves(e, "publish", v, v[1] \in isDefault)
    /\ UNCHANGED <<text, contents, flagVars, pins, historyVars>>

Publish(v) == text' = [text EXCEPT ![v].status = "PUBLISHED"]

\* The publication of a default takes the flag from the tenant's other definitions: the
\* HEAD side of the merge conflict the source carries here.
MoveDefault(e) ==
    LET d == editor[e].version[1] IN
    /\ isDefault' = IF editor[e].flag THEN isDefault \intersect {d} ELSE isDefault
    /\ public' = IF d \in Definitions THEN public \union {d} ELSE public
    /\ hadDefault' = (hadDefault \/ editor[e].flag)
    /\ flagMoved' = (flagMoved \/ (d \in Definitions /\ editor[e].flag # (d \in isDefault)))

CommitPublish(e) ==
    LET v == editor[e].version IN
    /\ EditorAt(e, "publish") /\ Publish(v) /\ MoveDefault(e) /\ EditorRests(e)
    /\ crossed' = IF \E f \in Editors \ {e} : editor[f].version = v /\ editor[f].pc \in {"update", "publish"}
                  THEN crossed \union {v} ELSE crossed
    /\ UNCHANGED <<contents, pins, retiredOnce>>

\* retireVersion: one conditional write.
RetireDefinition(v) ==
    /\ v[1] \in Definitions /\ text[v].status = "PUBLISHED"
    /\ text' = [text EXCEPT ![v].status = "RETIRED"] /\ retiredOnce' = retiredOnce \union {v}
    /\ UNCHANGED <<contents, flagVars, editor, pins, crossed>>

\* retirePromptVersion: a check and a write.
EnterRetire(e, v) ==
    /\ v[1] \in Prompts /\ EditorAt(e, "idle") /\ text[v].status = "PUBLISHED"
    /\ EditorMoves(e, "retire", v, FALSE)
    /\ UNCHANGED <<text, contents, flagVars, pins, historyVars>>

CommitRetire(e) ==
    LET v == editor[e].version IN
    /\ EditorAt(e, "retire") /\ EditorRests(e)
    /\ text' = [text EXCEPT ![v].status = "RETIRED"] /\ retiredOnce' = retiredOnce \union {v}
    /\ UNCHANGED <<contents, flagVars, pins, crossed>>

\* A refusal, a failed parse of the configuration, a deadlock or an exit.
GiveUpEdit(e) ==
    /\ ~EditorAt(e, "idle") /\ EditorRests(e)
    /\ UNCHANGED <<text, contents, flagVars, pins, historyVars>>

----------------------------------------------------------------------------

\* start of a workflow, request of an assessment: under a version that is published when
\* it is read.  Which one is an input: it may be named, or chosen by the flag.
Pin(v) ==
    /\ Cardinality(pins) < MaxPins /\ text[v].status = "PUBLISHED"
    /\ pins' = pins \union {[version |-> v, content |-> text[v].content]}
    /\ UNCHANGED <<text, contents, flagVars, editor, historyVars>>

Editing(e) ==
    \/ \E t \in Templates : EnterCreate(e, t)
    \/ \E v \in VersionIds : EnterUpdate(e, v) \/ EnterPublish(e, v) \/ EnterRetire(e, v)
    \/ CommitCreate(e) \/ CommitUpdate(e) \/ CommitPublish(e) \/ CommitRetire(e) \/ GiveUpEdit(e)

DefinitionsNext ==
    \/ \E e \in Editors : Editing(e)
    \/ \E d \in Definitions : Flag(d)
    \/ \E v \in VersionIds : RetireDefinition(v) \/ Pin(v)

DefinitionsSpec == DefinitionsInit /\ [][DefinitionsNext]_definitionVars

----------------------------------------------------------------------------

\* Every variable has its type.
DefinitionsTypeOK ==
    /\ text \in [VersionIds -> [status : {"NONE", "DRAFT", "PUBLISHED", "RETIRED"}, content : 0..contents]]
    /\ contents \in 0..MaxContents /\ isDefault \union public \subseteq Definitions
    /\ editor \in [Editors -> [pc : {"idle", "create", "update", "publish", "retire"},
                               version : VersionIds \union {EditorIdle.version}, flag : BOOLEAN]]
    /\ pins \subseteq [version : VersionIds, content : 1..contents]
    /\ retiredOnce \union crossed \subseteq VersionIds /\ {hadDefault, flagMoved} \subseteq BOOLEAN

\* docs/decisions/0017: published versions are immutable and every instance pins one
\* exact version.  What was started under a version finds the content it was started
\* with, unless the version was published while a change of it was between its check
\* and its write: there the code breaks the promise.
PinnedStands == \A p \in pins : p.version \in crossed \/ text[p.version].content = p.content

\* A retired version does not come back, unless two publications of it crossed.
RetiredStands == \A v \in retiredOnce \ crossed : text[v].status = "RETIRED"

\* From the first publication of a default on, the tenant has one published default,
\* unless a flag changed between a publication's read and its write: then it may have
\* two, or none, and starts without a version silently use the platform's.
DefaultStands ==
    LET defaults == isDefault \intersect public IN
    ~flagMoved => Cardinality(defaults) = IF hadDefault THEN 1 ELSE 0

\* What was published stands as long as requests do not cross.
GovernanceStands == PinnedStands /\ RetiredStands /\ DefaultStands
=============================================================================
