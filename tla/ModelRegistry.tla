--------------------------- MODULE ModelRegistry ---------------------------
(***************************************************************************)
(* The ml scorer's registry, a directory shared by the process that trains *)
(* (training/train.py, run from another container) and the process that    *)
(* serves (scorer/server.py with api/admin.py).  Neither locks it: a       *)
(* version is there once model.json and meta.json exist, and meta.json is  *)
(* written last.  Builds of the scorer differ in the features they produce,*)
(* so a restart may be an upgrade or a rollback.  One training runs at a   *)
(* time; it always takes the next version.                                 *)
(***************************************************************************)
EXTENDS Training

CONSTANTS
    Builds,      \* the feature lists (sequences of names) builds produce, in proto order
    Exclusions,  \* sets of features a training may leave out (--exclude-features)
    Windows,     \* what load_from_kafka may read: [decisions, labelled]
    Shipped,     \* versions that come with the repository
    Versions,    \* numbers a version may have
    NameOrder,   \* the version numbers as their directory names sort
    Reloads,     \* handlers of POST /reload
    Scores,      \* calls of Score
    MaxStarts,   \* bound: starts of the scorer
    MaxCrashes,  \* bound: trainings that are killed
    NoFile, Torn

\* The features a build may know, what a training fits, and what it says of it.
Names    == UNION {ToSet(b) : b \in Builds}
Boosters == [features : Seq(Names), run : Int]
Metas    == [version : Versions, features : Seq(Names), forced : BOOLEAN, train : Seq(Rows), test : Seq(Rows),
             suggested : [block : Int \cup {NoThreshold}, review : Int \cup {NoThreshold}]]

ASSUME RegistryAssumption ==
    /\ NoFile \notin Boosters \cup Metas \cup {Torn} /\ Torn \notin Boosters \cup Metas
    /\ Shipped \subseteq Versions /\ Versions \subseteq Nat \ {0} /\ IsFiniteSet(Versions)
    /\ \A b \in Builds : b \in Seq(ToSet(b))
    /\ \A w \in Windows : /\ w.decisions \in Seq(ToSet(w.decisions))
                          /\ \A d \in ToSet(w.decisions) : d.ts \in Int /\ d.p \in Int
    /\ MaxStarts \in Nat /\ MaxCrashes \in Nat

VARIABLES
    disk,          \* version -> its model.json and meta.json
    trainer,       \* [step, version, booster, meta] of the training that runs
    crashes,
    build,         \* FEATURES of the scorer's process
    up,            \* "down", "starting" or "up"
    starts,
    untried,       \* try_load_latest: versions it has still to try
    current,       \* holder.current: [booster, meta] or NoModel
    incompatible,  \* holder.incompatible
    handler,       \* per reload: [step, version, bundle]
    call,          \* per Score: [step, bundle], or [step, version, columns, run] when answered
    owed           \* history: the versions that could be served when the process started

trainVars == <<disk, trainer, crashes>>
scorerVars == <<build, up, starts, untried, current, incompatible, handler, call, owed>>
vars == <<trainVars, scorerVars>>

-----------------------------------------------------------------------------
(* Registry *)

Listed == {v \in Versions : disk[v].model # NoFile /\ disk[v].meta # NoFile}

\* Mutant of Newer: v9 after v10, as the names sort.
NewerByName(v, w) == NameOrder[v] > NameOrder[w]

Newer(v, w) == v > w

\* versions() is sorted; its last.
Newest(versions) == CHOOSE v \in versions : \A w \in versions : ~Newer(w, v)

NextVersion == IF Listed = {} THEN 1 ELSE Newest(Listed) + 1

Readable(v) == disk[v].model # Torn /\ disk[v].meta # Torn

\* ModelBundle.__init__: no features, a feature twice or one this build lacks is refused.
Servable(features, produced) ==
    features # <<>> /\ IsInjective(features) /\ ToSet(features) \subseteq ToSet(produced)

\* A file that cannot be parsed raises a ValueError too.
Loads(v) == Readable(v) /\ Servable(disk[v].meta.features, build)

Bundle(v) == [booster |-> disk[v].model, meta |-> disk[v].meta]

NoModel == [booster |-> Torn, meta |-> Torn]

-----------------------------------------------------------------------------
(* Training *)

\* What load_from_kafka returns.
Frames == {Frame(w.decisions, w.labelled) : w \in Windows}

NoTraining == [step |-> "idle", version |-> 0, booster |-> Torn, meta |-> Torn]

\* The version is chosen before the fit, which takes minutes.
Train(produced, exclude, frame, force) ==
    LET order    == Ascending({i \in DOMAIN produced : produced[i] \notin exclude})
        features == [k \in DOMAIN order |-> produced[order[k]]]
        run      == Cardinality({v \in Versions : disk[v].model # NoFile}) + crashes
    IN  /\ trainer.step = "idle"
        /\ force \/ Trainable(frame)
        /\ BothClasses(TrainRows(frame))
        /\ NextVersion \in Versions
        /\ trainer' = [step    |-> "fitted", version |-> NextVersion,
                       booster |-> [features |-> features, run |-> run],
                       meta    |-> [version |-> NextVersion, features |-> features, forced |-> force,
                                    train |-> TrainRows(frame), test |-> TestRows(frame),
                                    suggested |-> SuggestThresholds(Sweep(TestRows(frame)))]]
        /\ UNCHANGED <<disk, crashes, scorerVars>>

Saves(from, to, file, content) ==
    /\ trainer.step = from
    /\ trainer' = [trainer EXCEPT !.step = to]
    /\ disk' = [disk EXCEPT ![trainer.version][file] = content]
    /\ UNCHANGED <<crashes, scorerVars>>

\* save_bundle: a file is there, and empty, as soon as it is opened.
Save ==
    \/ Saves("fitted", "model", "model", Torn)
    \/ Saves("model", "modelled", "model", trainer.booster)
    \/ Saves("modelled", "meta", "meta", Torn)
    \/ Saves("meta", "saved", "meta", trainer.meta)

Killed ==
    /\ trainer.step # "idle"
    /\ crashes < MaxCrashes
    /\ crashes' = crashes + 1
    /\ trainer' = NoTraining
    /\ UNCHANGED <<disk, scorerVars>>

-----------------------------------------------------------------------------
(* The scorer's process *)

Idle == [step |-> "idle", version |-> 0, bundle |-> NoModel]

\* The process starts, after a crash or with another build: calls and handlers are gone.
Start(produced) ==
    /\ starts < MaxStarts
    /\ starts' = starts + 1
    /\ build' = produced /\ up' = "starting"
    /\ current' = NoModel /\ incompatible' = {}
    /\ untried' = Listed
    /\ handler' = [r \in Reloads |-> Idle]
    /\ call' = [c \in Scores |-> IF call[c].step = "running" THEN [step |-> "lost"] ELSE call[c]]
    /\ owed' = {v \in Versions : disk[v].model # NoFile /\ disk[v].meta # NoFile
                                 /\ Readable(v) /\ Servable(disk[v].meta.features, produced)}
    /\ UNCHANGED trainVars

\* try_load_latest, one version at a time; the servers start when it is done.
TryLoad ==
    /\ up = "starting" /\ untried # {}
    /\ LET v == Newest(untried)
       IN  IF Loads(v)
           THEN /\ current' = Bundle(v) /\ untried' = {} /\ up' = "up"
                /\ UNCHANGED incompatible
           ELSE /\ incompatible' = incompatible \cup {v} /\ untried' = untried \ {v}
                /\ UNCHANGED <<current, up>>
    /\ UNCHANGED <<trainVars, build, starts, handler, call, owed>>

StartWithout ==
    /\ up = "starting" /\ untried = {}
    /\ up' = "up"
    /\ UNCHANGED <<trainVars, build, starts, untried, current, incompatible, handler, call, owed>>

-----------------------------------------------------------------------------
(* POST /reload, served by the threads of the admin's pool *)

Handles(r, from, h) ==
    /\ up = "up"
    /\ handler[r].step = from
    /\ handler' = [handler EXCEPT ![r] = h]
    /\ UNCHANGED <<trainVars, build, up, starts, untried, incompatible, call, owed>>

\* A version that is not listed is answered 404.
ReloadBegins(r, v) ==
    /\ v \in Listed
    /\ Handles(r, "idle", [step |-> "found", version |-> v, bundle |-> NoModel])
    /\ UNCHANGED current

\* The files are read outside the lock; what cannot be served is answered 409.
ReloadReads(r) ==
    /\ Handles(r, "found", IF Loads(handler[r].version)
                           THEN [handler[r] EXCEPT !.step = "read", !.bundle = Bundle(handler[r].version)]
                           ELSE Idle)
    /\ UNCHANGED current

ReloadSwaps(r) ==
    /\ Handles(r, "read", Idle)
    /\ current' = handler[r].bundle

\* reload_scorer, best effort: the version just saved, or nothing if the scorer is away.
ReloadScorer ==
    /\ trainer.step = "saved"
    /\ trainer' = NoTraining
    /\ \/ \E r \in Reloads :
            /\ up = "up" /\ handler[r].step = "idle"
            /\ handler' = [handler EXCEPT ![r] = [step |-> "found", version |-> trainer.version, bundle |-> NoModel]]
       \/ UNCHANGED handler
    /\ UNCHANGED <<disk, crashes, build, up, starts, untried, current, incompatible, call, owed>>

-----------------------------------------------------------------------------
(* Score *)

Calls(c, from, result) ==
    /\ up = "up"
    /\ call[c].step = from
    /\ call' = [call EXCEPT ![c] = result]
    /\ UNCHANGED <<trainVars, build, up, starts, untried, current, incompatible, handler, owed>>

\* The bundle is taken once, at the start.
Capture(c) ==
    Calls(c, "new", IF current = NoModel THEN [step |-> "no_model"]
                    ELSE [step |-> "running", bundle |-> current])

\* row_from_proto: the values of a call, named by their feature, in the order of FEATURES.
RowFromProto == build

\* The columns of that row the model is given.
ByName(features) ==
    [i \in DOMAIN features |-> RowFromProto[CHOOSE k \in DOMAIN build : build[k] = features[i]]]

Answered(c, bundle, columns) ==
    Calls(c, "running", [step |-> "answered", version |-> bundle.meta.version,
                         columns |-> columns, run |-> call[c].bundle.booster.run])

\* Mutant of Predict: the answer names the model that is served by now.
PredictReread(c) == Answered(c, current, ByName(call[c].bundle.meta.features))

\* predict on a thread of the executor; a reload may have swapped the model meanwhile.
Predict(c) ==
    LET bundle == call[c].bundle IN Answered(c, bundle, ByName(bundle.meta.features))

-----------------------------------------------------------------------------
Init ==
    /\ disk \in [Versions -> [model : {NoFile}, meta : {NoFile}]]
            \cup {[v \in Versions |->
                     IF v \in Shipped
                     THEN [model |-> [features |-> f, run |-> -v],
                           meta  |-> [version |-> v, features |-> f, forced |-> TRUE, train |-> <<>>,
                                      test |-> <<>>, suggested |-> [block |-> NoThreshold, review |-> NoThreshold]]]
                     ELSE [model |-> NoFile, meta |-> NoFile]] : f \in Builds}
    /\ trainer = NoTraining /\ crashes = 0
    /\ build = <<>> /\ up = "down" /\ starts = 0 /\ untried = {}
    /\ current = NoModel /\ incompatible = {} /\ owed = {}
    /\ handler = [r \in Reloads |-> Idle]
    /\ call = [c \in Scores |-> [step |-> "new"]]

Training ==
    \/ \E b \in Builds, x \in Exclusions, f \in Frames, force \in BOOLEAN : Train(b, x, f, force)
    \/ Save \/ Killed \/ ReloadScorer

Serving ==
    \/ \E b \in Builds : Start(b)
    \/ TryLoad \/ StartWithout
    \/ \E r \in Reloads : ReloadReads(r) \/ ReloadSwaps(r) \/ \E v \in Versions : ReloadBegins(r, v)
    \/ \E c \in Scores : Capture(c) \/ Predict(c)

Next == Training \/ Serving

Spec == Init /\ [][Next]_vars

-----------------------------------------------------------------------------
(* Properties *)

\* Whatever is trained, reloaded or restarted around it, a score was computed by the model it
\* names, from the columns that model was trained on, in its order.
ScoredByItsModel ==
    \A c \in Scores : call[c].step = "answered" =>
        LET v == call[c].version
        IN  /\ Readable(v) /\ v \in Listed
            /\ disk[v].model = [features |-> call[c].columns, run |-> call[c].run]

\* A scorer that starts serves a model at least as new as every one it could have served when
\* it started, and none only if there was none; what it reports as skipped is newer than that.
StartsOnNewest ==
    [][up = "starting" /\ up' = "up" =>
         IF current' = NoModel THEN owed = {}
         ELSE /\ \A v \in owed : v <= current'.meta.version
              /\ \A v \in incompatible' : v > current'.meta.version]_vars

\* Every version that can be read was measured on rows none of which is older than a row it
\* was trained on, learned from both classes, and, unless it was forced, was tested on enough
\* fraud; the thresholds it suggests are ordered, and blocking was precise enough in the test, up to
\* the four decimals that precision is rounded to: 97.995 % passes for 98 %.
RegisteredHonestly ==
    \A v \in Listed \ Shipped : Readable(v) =>
        LET m == disk[v].meta
        IN  /\ m.version = v /\ m.features = disk[v].model.features
            /\ BothClasses(m.train)
            /\ \A i \in DOMAIN m.train, j \in DOMAIN m.test : m.train[i].ts <= m.test[j].ts
            /\ ~m.forced => Positives(m.test) >= MinTestPositives
            /\ m.suggested.block # NoThreshold =>
                 /\ 20000 * CaughtAt(m.test, m.suggested.block) >= 19599 * FlaggedAt(m.test, m.suggested.block)
                 /\ FlaggedAt(m.test, m.suggested.block) > 0
                 /\ m.suggested.review < m.suggested.block \/ m.suggested.block <= 5
=============================================================================
