--------------------------- MODULE Investigation ---------------------------
(***************************************************************************)
(* One investigation by the analyst agent (agent/graph.py): the state graph*)
(* triage -> investigate (bounded loop) -> similar_cases -> draft_report   *)
(* -> verify -> finalize, with a retry from verify back to investigate.    *)
(*                                                                         *)
(* The language model may answer anything: any tool calls, any draft or    *)
(* none, and it may fail.  A tool result is a failure or the set of numbers*)
(* its payload holds; a finding is the set of evidence indices it cites    *)
(* and the set of numbers it quotes.  Wording, the summary and the         *)
(* confidence are left out: verify does not look at them.                  *)
(***************************************************************************)
EXTENDS Naturals, SequencesExt

CONSTANTS
    MaxToolCalls,       \* settings.max_tool_calls
    MaxVerifyAttempts,  \* settings.max_verify_attempts
    RecursionLimit,     \* steps after which LangGraph gives the run up (server.py)
    Numbers,            \* numbers a payload may hold and a claim may quote
    NoReport,           \* no draft, nothing published
    Citations,          \* bound: the evidence_refs a finding may have
    MaxFindings,        \* bound: findings of a draft
    MaxAsked            \* bound: tool calls the model asks for in one turn

\* Each attempt takes one turn that calls no tool and three nodes more, each other turn a call.
ASSUME InvestigationAssumption ==
    /\ MaxToolCalls \in Nat /\ MaxVerifyAttempts \in Nat \ {0}
    /\ RecursionLimit \in Nat
    /\ RecursionLimit >= 2 + MaxToolCalls + 4 * MaxVerifyAttempts
    /\ Citations \subseteq SUBSET Nat
    /\ MaxFindings \in Nat /\ MaxAsked \in Nat

Failure  == [ok |-> FALSE, numbers |-> {}]
Evidence == [ok : {TRUE}, numbers : SUBSET Numbers] \cup {Failure}
Finding  == [refs : Citations, quotes : SUBSET Numbers]
Draft    == UNION {[1 .. n -> Finding] : n \in 0 .. MaxFindings}

VARIABLES
    node,        \* the node that runs next, "end", or "error" after an exception
    evidence,    \* every tool result, in order; findings cite them from 0
    used,        \* tool_calls_used
    attempts,    \* verify_attempts
    toolLast,    \* the last message of the conversation is a tool's
    report,      \* the latest draft, NoReport if there is none
    violations,  \* findings the latest verification rejected; 0 stands for the whole report
    history,     \* all_violations
    attached,    \* what the case-service was given
    steps        \* nodes run, counted up to RecursionLimit + 1

runVars == <<node, evidence, used, attempts, toolLast, report, violations, history, attached, steps>>

Nodes == {"triage", "investigate", "similar_cases", "draft_report", "verify", "finalize"}

\* LangGraph runs the node n.
Runs(n) ==
    /\ node = n
    /\ steps' = IF steps <= RecursionLimit THEN steps + 1 ELSE steps

-----------------------------------------------------------------------------
\* The case is evidence 0, whether it could be fetched or not.
Triage ==
    /\ Runs("triage")
    /\ \E e \in Evidence : evidence' = <<e>>
    /\ used' = 0 /\ attempts' = 0 /\ toolLast' = FALSE
    /\ node' = "investigate"
    /\ UNCHANGED <<report, violations, history, attached>>

Remaining == MaxToolCalls - used

\* Mutant of AfterInvestigate: the two answers of the budget test are swapped.
LoopOnSpentBudget(calls, tool) ==
    IF calls >= MaxToolCalls \/ tool THEN "investigate" ELSE "similar_cases"

\* The model gets another turn after a tool's answer while there is budget.
AfterInvestigate(calls, tool) ==
    IF calls < MaxToolCalls /\ tool THEN "investigate" ELSE "similar_cases"

BudgetExhausted ==
    /\ Runs("investigate")
    /\ Remaining <= 0
    /\ toolLast' = FALSE
    /\ node' = AfterInvestigate(used, FALSE)
    /\ UNCHANGED <<evidence, used, attempts, report, violations, history, attached>>

\* A provider failure spends the budget, and so ends the loop.
ModelFails ==
    /\ Runs("investigate")
    /\ Remaining > 0
    /\ used' = MaxToolCalls
    /\ node' = AfterInvestigate(MaxToolCalls, toolLast)
    /\ UNCHANGED <<evidence, attempts, toolLast, report, violations, history, attached>>

NoToolRequested ==
    /\ Runs("investigate")
    /\ Remaining > 0
    /\ toolLast' = FALSE
    /\ node' = AfterInvestigate(used, FALSE)
    /\ UNCHANGED <<evidence, used, attempts, report, violations, history, attached>>

\* Mutant of Truncated: every call the model asks for is made.
AllAsked(asked) == asked

\* [:remaining]
Truncated(asked) == IF asked <= Remaining THEN asked ELSE Remaining

\* Each call adds evidence, an error if the tool is unknown, refused its arguments or failed.
CallTools ==
    /\ Runs("investigate")
    /\ Remaining > 0
    /\ \E asked \in 1 .. MaxAsked : \E results \in [1 .. Truncated(asked) -> Evidence] :
         /\ evidence' = evidence \o results
         /\ used' = used + Truncated(asked)
         /\ node' = AfterInvestigate(used + Truncated(asked), TRUE)
    /\ toolLast' = TRUE
    /\ UNCHANGED <<attempts, report, violations, history, attached>>

\* hours is not a number: int() raises ValueError, and only TypeError is caught.
ToolRaises ==
    /\ Runs("investigate")
    /\ Remaining > 0
    /\ node' = "error"
    /\ UNCHANGED <<evidence, used, attempts, toolLast, report, violations, history, attached>>

InvestigateNode ==
    \/ BudgetExhausted \/ ModelFails \/ NoToolRequested \/ CallTools \/ ToolRaises

\* One more piece of evidence, outside the budget and once per attempt.
SimilarCases ==
    /\ Runs("similar_cases")
    /\ \E e \in Evidence : evidence' = Append(evidence, e)
    /\ node' = "draft_report"
    /\ UNCHANGED <<used, attempts, toolLast, report, violations, history, attached>>

\* A report, or none: the call failed, the text was no JSON, or the schema rejected it.
DraftReport ==
    /\ Runs("draft_report")
    /\ report' \in Draft \cup {NoReport}
    /\ node' = "verify"
    /\ UNCHANGED <<evidence, used, attempts, toolLast, violations, history, attached>>

-----------------------------------------------------------------------------
(* verify.py *)

Exists(ev, r) == r < Len(ev)
Ok(ev, r)     == ev[r + 1].ok
NumbersIn(ev, refs) == UNION {ev[r + 1].numbers : r \in refs}

\* Mutant of Supported: failed evidence may be cited, it only holds no numbers.
SupportedByAnything(f, ev) ==
    /\ f.refs # {}
    /\ \A r \in f.refs : Exists(ev, r)
    /\ f.quotes \subseteq NumbersIn(ev, f.refs)

\* verify_claims finds nothing against the finding.
Supported(f, ev) ==
    /\ f.refs # {}
    /\ \A r \in f.refs : Exists(ev, r) /\ Ok(ev, r)
    /\ f.quotes \subseteq NumbersIn(ev, f.refs)

Rejected(r, ev) ==
    IF r = NoReport THEN {0} ELSE {i \in DOMAIN r : ~Supported(r[i], ev)}

\* A report with violations is written again while there are attempts left.
AfterVerify(bad, n) ==
    IF bad # {} /\ n < MaxVerifyAttempts THEN "investigate" ELSE "finalize"

\* Mutant of Accumulated: the latest attempt's violations only.
Latest(bad) == bad

Accumulated(bad) == history \cup bad

Verify ==
    /\ Runs("verify")
    /\ attempts' = attempts + 1
    /\ violations' = Rejected(report, evidence)
    /\ history' = Accumulated(Rejected(report, evidence))
    /\ node' = AfterVerify(Rejected(report, evidence), attempts + 1)
    /\ UNCHANGED <<evidence, used, toolLast, report, attached>>

\* The findings of an escalated report: those without a violation.
KeptFindings == IF report = NoReport THEN {} ELSE {report[i] : i \in DOMAIN report \ violations}

Published ==
    [passed   |-> violations = {},
     action   |-> IF violations = {} THEN "drafted" ELSE "ESCALATE",
     findings |-> KeptFindings,
     evidence |-> evidence,
     attempts |-> attempts,
     violations |-> history]

\* The report is put to the case-service, which may refuse or be away.
Finalize ==
    /\ Runs("finalize")
    /\ attached' \in {Published, NoReport}
    /\ node' = "end"
    /\ UNCHANGED <<evidence, used, attempts, toolLast, report, violations, history>>

-----------------------------------------------------------------------------
RunInit ==
    /\ node = "triage" /\ evidence = <<>> /\ used = 0 /\ attempts = 0 /\ toolLast = FALSE
    /\ report = NoReport /\ violations = {} /\ history = {} /\ attached = NoReport /\ steps = 0

RunNext == Triage \/ InvestigateNode \/ SimilarCases \/ DraftReport \/ Verify \/ Finalize

RunSpec == RunInit /\ [][RunNext]_runVars

\* Every node is a call that returns: tools and the model's client have timeouts.
RunFairSpec == RunSpec /\ WF_runVars(RunNext)

-----------------------------------------------------------------------------
(* Properties *)

Marks == 0 .. MaxFindings
Report ==
    [passed : BOOLEAN, action : {"drafted", "ESCALATE"}, findings : SUBSET Finding,
     evidence : Seq(Evidence), attempts : Nat, violations : SUBSET Marks]

\* Every variable keeps its type, the budget and the number of attempts their bounds, and the
\* evidence the size that the budget, the case and one search per attempt allow.
RunTypes ==
    /\ node \in Nodes \cup {"end", "error"}
    /\ evidence \in Seq(Evidence)
    /\ used \in 0 .. MaxToolCalls
    /\ attempts \in 0 .. MaxVerifyAttempts
    /\ toolLast \in BOOLEAN
    /\ report \in Draft \cup {NoReport}
    /\ violations \in SUBSET Marks /\ history \in SUBSET Marks
    /\ attached \in Report \cup {NoReport}
    /\ steps \in Nat

\* The tool budget is one for the whole investigation, the retry included: what the agent has
\* gathered is the case, at most that many tool results, and a search per attempt.
BudgetKept ==
    node # "triage" =>
        Len(evidence) <= 1 + MaxToolCalls + attempts
                         + (IF node \in {"draft_report", "verify"} THEN 1 ELSE 0)

\* Every finding a human reads cites evidence that is in the report, was gathered without an
\* error and holds every number quoted - in a verified report and in an escalated one.
PublishedClaimsHold ==
    attached # NoReport =>
        \A f \in attached.findings :
            /\ f.refs # {}
            /\ \A r \in f.refs : r + 1 \in DOMAIN attached.evidence /\ attached.evidence[r + 1].ok
            /\ \A q \in f.quotes : \E r \in f.refs : q \in attached.evidence[r + 1].numbers

\* A verified report is the latest draft, whole; one that needed a second attempt says what was
\* wrong with the first; any other escalates and says why.
PublishedHonestly ==
    attached # NoReport =>
        /\ attached.passed => /\ report # NoReport
                              /\ attached.findings = Range(report)
                              /\ attached.action = "drafted"
        /\ ~attached.passed => attached.action = "ESCALATE" /\ attached.attempts = MaxVerifyAttempts
        /\ ~attached.passed \/ attached.attempts > 1 => attached.violations # {}

\* The model's loops never run into LangGraph's recursion limit, which would end the
\* investigation without a report.
WithinRecursionLimit == steps <= RecursionLimit

\* Every investigation ends, whatever the model answers.
InvestigationEnds == <>(node \in {"end", "error"})
=============================================================================
