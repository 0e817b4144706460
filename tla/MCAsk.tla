------------------------------- MODULE MCAsk -------------------------------
(* Model values for the runs of Ask: two questions about one kind of case. *)
EXTENDS Ask

\* Requests and clients are used only through equality and membership.
Symmetry == Permutations(Callers) \cup Permutations(Clients)

MCIpLimit     == [minute |-> 1, day |-> 2]
MCGlobalLimit == [minute |-> 2, day |-> 2]
MCSeconds     == [minute |-> 1, day |-> 2]

\* One question needs the account's history, the other only the decision.
MCRoutes == [normal |-> <<"history">>, why |-> <<>>]

\* A cycle of five accounts (six entries, the first twice), ratios of 0.96 and 0.0445; the report
\* had gathered a history in vain.
Decision == Fields({Value(9600), Value(445),
                    Items(<<Text({Unread("id")}), Text({Number(170000), Unread("id")}),
                            Text({Unread("timestamp")}), Text({Unread("id")})>>)})
MCCases ==
    {[decision |-> Decision,
      report   |-> <<[tool |-> "get_case", ok |-> TRUE, payload |-> Decision],
                     [tool |-> "history", ok |-> FALSE, payload |-> Fields({})]>>]}

\* A mean amount of 134.993, and 42 transactions among the live counts, which are a tool of their own too.
History == Fields({Value(1349930), Hidden(420000)})
Counts == Fields({Value(420000)})

Succeeds(payload) == [ok |-> TRUE, payload |-> payload]
Fails == [ok |-> FALSE, payload |-> Fields({})]
MCOutcomes == {[history |-> h, windows |-> Succeeds(Counts)] : h \in {Succeeds(History), Fails}}
MCPayloads == {Decision, History, Counts}

\* A mean rounded; ratios as percentages, one with a decimal, the size of the list and a count of
\* two; a percentage that no ratio comes near; a number that is only among the counts of the moment.
Mean   == [text |-> Text({Number(1350000)}), refs |-> {2, -1}]
Quoted == [text |-> Text({Percent(960000), Percent(45000), Number(40000), Number(20000)}), refs |-> {0}]
Skewed == [text |-> Text({Percent(550000)}), refs |-> {0}]
Live   == [text |-> Text({Number(420000)}), refs |-> {0, 2}]
Vague  == [text |-> Text({Unread("marker")}), refs |-> {2}]
Blank  == [text |-> NoText, refs |-> {}]

\* No reply, prose around a JSON object or two, and one in a fenced block.
Object(sentences, needs) == [type |-> "object", sentences |-> sentences, needs |-> needs]
Prose == [type |-> "prose"]
Fence == [type |-> "fence"]
Says(pieces) == [failed |-> FALSE, pieces |-> pieces]
Needs == Object(<<>>, <<"history", "drop_tables", "history">>)
Measure == Object(<<>>, <<"windows">>)
MCReplies ==
    [normal |-> {[failed |-> TRUE], Says(<<Prose, Needs>>),
                 Says(<<Prose, Fence, Object(<<Mean, Live>>, <<>>), Fence, Prose, Needs>>),
                 Says(<<Object(<<Blank, Vague, Quoted>>, <<>>)>>)},
     why    |-> {Says(<<Measure>>), Says(<<Fence, Object(<<Quoted, Skewed>>, <<>>)>>),
                 Says(<<Object(<<Live>>, <<>>)>>)}]
=============================================================================
