-------------------------------- MODULE Ask --------------------------------
(***************************************************************************)
(* POST /cases/{id}/ask of the analyst agent: the answer cache, the rate   *)
(* limiter (RateLimiter) and ask_case, for requests served at once by the  *)
(* threads of the server's pool.                                           *)
(*                                                                         *)
(* ask_case touches nothing the requests share, so a whole question is one *)
(* step, the result a function of what the case service and the model      *)
(* reply.  A question stands for its cache key: the case, the text without *)
(* its spacing and the last six turns.  The prompt, the step list and the  *)
(* timings are left out.                                                   *)
(***************************************************************************)
EXTENDS RateLimiter, Quantities, SequencesExt

CONSTANTS
    Questions,
    HistoryTool,   \* get_user_history
    CallableTools,
    Routes,        \* question -> the tools route_question fetches first
    Payloads,      \* what a tool may return
    Cases,         \* what get_case may return for the case
    Outcomes,      \* what becomes of calls of the tools: each tool's [ok, payload]
    Replies,       \* question -> what the model may reply: nothing, or a text in pieces
    AskMaxTools,   \* settings.ask_max_tools
    MaxSentences,
    Ttl,           \* settings.ask_cache_ttl_s, in ticks
    CacheSize,
    NoText         \* the text of a sentence that is blank or no string

VARIABLES
    pc,      \* per request: "new", "cache", "limit", "ask" or "done"
    client,  \* per request: who asks, Everyone before and after
    asks,    \* per request: the question, NoText before and after
    cache,   \* AnswerCache._items, the least recently used first
    usable   \* there is a model and its id is one of the account's

askVars == <<limiterVars, pc, client, asks, cache, usable>>

-----------------------------------------------------------------------------
(* ask_case *)

\* The items of a sequence at some of its places, in order.
Only(seq, places) ==
    LET Upto[k \in 0 .. Len(seq)] ==
            IF k = 0 THEN <<>> ELSE IF k \in places THEN Append(Upto[k - 1], seq[k]) ELSE Upto[k - 1]
    IN  Upto[Len(seq)]

Nothing == [sentences |-> <<>>, needs |-> <<>>]

\* parse_json_object: a reply's pieces are prose without braces, fences and JSON objects; the
\* object is taken if it is the whole text, all of the first fenced block, or all there is from
\* the first brace to the last.
Whole(pieces) == Len(pieces) = 1 /\ pieces[1].type = "object"

Fenced(pieces) ==
    LET fences == {i \in DOMAIN pieces : pieces[i].type = "fence"}
    IN  Only(pieces, {i \in DOMAIN pieces \ fences : Cardinality({j \in fences : j < i}) = 1})

Braced(pieces) ==
    LET objects == {i \in DOMAIN pieces : pieces[i].type = "object"}
    IN  Only(pieces, {i \in DOMAIN pieces : \E j, k \in objects : j <= i /\ i <= k})

ParsedObject(pieces) ==
    LET tries == <<pieces, Fenced(pieces), Braced(pieces)>>
        taken == {i \in 1 .. 3 : Whole(tries[i])}
    IN  IF taken = {} THEN Nothing ELSE tries[Min(taken)][1]

\* Unknown names, repetitions, sentences past the sixth and without a text are left out.
ParseDraft(reply) ==
    LET json == ParsedObject(reply.pieces)
        first(i) == json.needs[i] \in CallableTools /\ \A j \in 1 .. i - 1 : json.needs[j] # json.needs[i]
        kept == {json.sentences[i] : i \in {k \in DOMAIN json.sentences :
                                             k <= MaxSentences /\ json.sentences[k].text # NoText}}
    IN  IF reply.failed THEN [sentences |-> {}, needs |-> <<>>]
        ELSE [needs     |-> Only(json.needs, {i \in DOMAIN json.needs : first(i)}),
              sentences |-> {[text |-> s.text, refs |-> {r \in s.refs : r >= 0}] : s \in kept}]

\* history_view: without the account's live window counts, which are of the moment the question
\* is asked, nor the latencies and ids of its decisions.
HistoryView(payload) ==
    IF payload.type = "object" THEN Fields({m \in payload.members : m.type # "hidden"}) ELSE payload

Shaped(e) ==
    IF e.tool = HistoryTool /\ e.ok THEN [e EXCEPT !.payload = HistoryView(e.payload)] ELSE e

\* The decision, and what the report was built on.
InitialEvidence(case) ==
    LET gathered == Only(case.report, {i \in DOMAIN case.report : case.report[i].tool # "get_case"})
    IN  <<[tool |-> "decision", ok |-> TRUE, payload |-> case.decision]>>
        \o [i \in DOMAIN gathered |-> Shaped(gathered[i])]

Called(tool, r) == [tool |-> tool, ok |-> r.ok, payload |-> r.payload]

\* A tool is tried while there is budget and it has not succeeded yet.
FetchOne(s, tool, result) ==
    IF s.budget <= 0 \/ \E i \in DOMAIN s.evidence : s.evidence[i].tool = tool /\ s.evidence[i].ok
    THEN s
    ELSE [evidence |-> Append(s.evidence, Shaped(Called(tool, result[tool]))), budget |-> s.budget - 1]

Fetch(s, tools, result) ==
    LET After[k \in 0 .. Len(tools)] ==
            IF k = 0 THEN s ELSE FetchOne(After[k - 1], tools[k], result)
    IN  After[Len(tools)]

\* Mutant of Verified: failed evidence may be cited, its payload is read all the same.
VerifiedByAnything(s, ev) ==
    /\ s.refs # {} /\ \A r \in s.refs : r < Len(ev)
    /\ \A q \in Quantities(s.text) : Cited(q, UNION {NumbersOf(ev[r + 1].payload) : r \in s.refs})

\* verify_claims finds nothing against the sentence.
Verified(s, ev) ==
    /\ s.refs # {}
    /\ \A r \in s.refs : r < Len(ev) /\ ev[r + 1].ok
    /\ \A q \in Quantities(s.text) : Cited(q, UNION {NumbersOf(ev[r + 1].payload) : r \in s.refs})

Check(sentences, ev) ==
    LET answer == {s \in sentences : Verified(s, ev)}
    IN  [answer |-> answer, removed |-> {s.text : s \in sentences \ answer}]

\* One question: tools the question calls for, a draft; if it only asks for more, those tools
\* and a draft; if nothing of it holds, one rewrite.  first and second are the tools' results.
AskCase(question, case, first, second, replies) ==
    LET start   == [evidence |-> InitialEvidence(case), budget |-> AskMaxTools]
        routed  == Fetch(start, Routes[question], first)
        opening == ParseDraft(replies[1])
        more    == opening.needs # <<>> /\ opening.sentences = {}
        fetched == IF more THEN Fetch(routed, opening.needs, second) ELSE routed
        used    == IF more THEN 2 ELSE 1
        checked == Check(ParseDraft(replies[used]).sentences, fetched.evidence)
        rewrite == checked.answer = {} /\ ~replies[used].failed
        final   == IF rewrite THEN Check(ParseDraft(replies[used + 1]).sentences, fetched.evidence)
                   ELSE checked
    IN  [answer   |-> final.answer,
         removed  |-> checked.removed \cup final.removed,
         evidence |-> fetched.evidence,
         earlier  |-> Len(start.evidence),
         attempts |-> IF rewrite THEN used + 1 ELSE used]

Answers ==
    [q \in Questions |->
        {AskCase(q, case, first, second, replies) :
            case \in Cases, first \in Outcomes, second \in Outcomes, replies \in [1 .. 3 -> Replies[q]]}]

\* What is said to ask_case: a reply is any text, and a failed call has no payload.
Token    == {t \in [kind : STRING, value : Nat, percent : BOOLEAN] : t.percent => t.value % 100 = 0}
Sentence == [text : [type : {"text"}, tokens : SUBSET Token] \cup {NoText}, refs : SUBSET Int]
Json     == [type : {"object"}, sentences : Seq(Sentence), needs : Seq(STRING)]
Piece    == Json \cup [type : {"prose", "fence"}]
Reply    == [failed : {TRUE}] \cup [failed : {FALSE}, pieces : Seq(Piece)]
Result   == [ok : {TRUE}, payload : Payloads] \cup [ok : {FALSE}, payload : {Fields({})}]
Entry    == [tool : STRING, ok : {TRUE}, payload : Payloads]
            \cup [tool : STRING, ok : {FALSE}, payload : {Fields({})}]

ASSUME AskAssumption ==
    /\ AskMaxTools \in Nat /\ MaxSentences \in Nat /\ CacheSize \in Nat
    /\ CallableTools \subseteq STRING /\ HistoryTool # "decision"
    /\ Routes \in [Questions -> Seq(CallableTools)]
    /\ \A p \in Payloads : NumbersOf(p) \cup NumbersOf(HistoryView(p)) \subseteq Nat
    /\ \A case \in Cases : case.decision \in Payloads /\ case.report \in Seq(Entry)
    /\ Outcomes \subseteq [CallableTools -> Result]
    /\ Replies \in [Questions -> SUBSET Reply]

-----------------------------------------------------------------------------
(* AnswerCache *)

Entries(q) == {i \in DOMAIN cache : cache[i].key = q}
Fresh(q)  == \E i \in Entries(q) : clock - cache[i].at <= Ttl
Others(q) == Only(cache, DOMAIN cache \ Entries(q))

\* move_to_end
Touched(q) == Append(Others(q), cache[CHOOSE i \in Entries(q) : TRUE])

Put(q, answer) ==
    LET new == Append(Others(q), [key |-> q, at |-> clock, value |-> answer])
    IN  IF Ttl <= 0 \/ answer.answer = {} THEN cache
        ELSE IF Len(new) <= CacheSize THEN new
        ELSE SubSeq(new, Len(new) - CacheSize + 1, Len(new))

-----------------------------------------------------------------------------
(* The endpoint *)

Goes(r, from, to) ==
    /\ pc[r] = from
    /\ pc' = [pc EXCEPT ![r] = to]
    /\ UNCHANGED <<client, asks, usable>>

Responds(r, from) ==
    /\ pc[r] = from
    /\ pc' = [pc EXCEPT ![r] = "done"]
    /\ client' = [client EXCEPT ![r] = Everyone]
    /\ asks' = [asks EXCEPT ![r] = NoText]
    /\ UNCHANGED usable

Arrive(r, cl, q) ==
    /\ usable
    /\ pc[r] = "new"
    /\ pc' = [pc EXCEPT ![r] = "cache"]
    /\ client' = [client EXCEPT ![r] = cl]
    /\ asks' = [asks EXCEPT ![r] = q]
    /\ UNCHANGED <<limiterVars, cache, usable>>

\* 503: there is no model to ask.
NoModel(r) ==
    /\ ~usable
    /\ Responds(r, "new")
    /\ UNCHANGED <<limiterVars, cache>>

ServeCached(r) ==
    /\ Responds(r, "cache")
    /\ Fresh(asks[r])
    /\ cache' = Touched(asks[r])
    /\ UNCHANGED limiterVars

\* An entry past its time is deleted when it is looked up.
MissCache(r) ==
    /\ Goes(r, "cache", "limit")
    /\ ~Fresh(asks[r])
    /\ cache' = Others(asks[r])
    /\ UNCHANGED limiterVars

Limiter(r) ==
    /\ \/ Goes(r, "limit", "limit") /\ ReadClock(r)
       \/ Goes(r, "limit", "ask") /\ Admit(r, client[r])
       \/ Responds(r, "limit") /\ Refuse(r, client[r])
    /\ UNCHANGED cache

\* The case does not exist or could not be read (404, 503), or the model's JSON has a shape that
\* parse_draft does not expect, sentences that are no list for one (500).
NoCase(r) ==
    /\ Responds(r, "ask")
    /\ UNCHANGED <<limiterVars, cache>>

Answer(r) ==
    /\ Responds(r, "ask")
    /\ \E answer \in Answers[asks[r]] : cache' = Put(asks[r], answer)
    /\ UNCHANGED limiterVars

AskInit ==
    /\ LimiterInit
    /\ pc = [r \in Callers |-> "new"]
    /\ client \in [Callers -> {Everyone}] /\ asks \in [Callers -> {NoText}]
    /\ cache = <<>>
    /\ usable \in BOOLEAN

AskNext ==
    \/ Tick /\ UNCHANGED <<pc, client, asks, cache, usable>>
    \/ \E r \in Callers :
         \/ \E cl \in Clients, q \in Questions : Arrive(r, cl, q)
         \/ NoModel(r) \/ ServeCached(r) \/ MissCache(r) \/ Limiter(r) \/ NoCase(r) \/ Answer(r)

AskSpec == AskInit /\ [][AskNext]_askVars

-----------------------------------------------------------------------------
(* Properties *)

\* A number c of the evidence that q may stand for: less than one away or within one per cent,
\* and within half its last place (or one per cent) when q is written with decimals.
Near(v, c) ==
    \/ 100 * Distance(v, c) <= Larger(v, c)
    \/ Distance(v, c) < Unit /\ (v % Unit = 0 \/ 2 * Distance(v, c) <= LastPlace(v))

Holds(s, ev) ==
    /\ s.refs # {}
    /\ \A r \in s.refs : r + 1 \in DOMAIN ev /\ ev[r + 1].ok
    /\ \A t \in s.text.tokens : t.kind = "number" /\ ~Exempt(t.value) =>
         \E r \in s.refs : \E c \in NumbersOf(ev[r + 1].payload) :
             Near(t.value, c) \/ (t.percent /\ Near(Ratio(t.value), c))

\* Whatever the model and the tools reply and whoever asked first: every sentence that is kept
\* to be shown again rests on evidence of the same answer that was gathered without an error; the
\* history among it is without the counts of the moment of asking (get_window_counts may be asked
\* for them all the same, and the answer is kept); no tool was called again after it had succeeded
\* nor more of them than the budget allows, and no answer took more than three model calls.
AnswersHold ==
    \A i \in DOMAIN cache :
        LET v == cache[i].value
            called == v.earlier + 1 .. Len(v.evidence)
        IN  /\ v.answer # {} /\ v.attempts <= 3
            /\ \A s \in v.answer : Holds(s, v.evidence)
            /\ \A e \in ToSet(v.evidence) :
                 e.tool = HistoryTool => \A m \in Members(e.payload) : m.type # "hidden"
            /\ Cardinality(called) <= AskMaxTools
            /\ \A k \in called : \A j \in 1 .. k - 1 :
                 v.evidence[j].tool = v.evidence[k].tool => ~v.evidence[j].ok
=============================================================================
