------------------------------ MODULE MC_Mining ------------------------------
(***************************************************************************)
(* Small families of transactions for Mining.                               *)
(***************************************************************************)
EXTENDS Mining, TLC

Names == {"a", "b", "c", "d"}
NoEvents == [e \in Events |-> 0]
Nobody == [t \in Names |-> {}]

Base ==
    [parents |-> Nobody, rivals |-> Nobody, fee |-> [t \in Names |-> 1], chain |-> <<>>,
     blocks |-> {}, limit |-> 4, secondary |-> 4, keep |-> 4, expiring |-> {},
     refused |-> {}, deltas |-> {}, fill |-> FALSE, overlap |-> FALSE, reasons |-> {"NEW_BLOCK", "REORG"},
     budget |-> NoEvents]

\* a does not pay, b pays for both, d spends the outputs of b and c.
Family == [Base EXCEPT !.parents = [a |-> {}, b |-> {"a"}, c |-> {"a"}, d |-> {"b", "c"}],
                       !.fee = [a |-> 0, b |-> 2, c |-> 1, d |-> 1]]

\* A group forms, is evicted, is mined in part or whole.
Grouped ==
    [Family EXCEPT !.blocks = {<<"a">>, <<"a", "b">>, <<"a", "c">>}, !.limit = 3,
                   !.budget = "batches" :> 2 @@ "connects" :> 1 @@ "templates" :> 1 @@ NoEvents]

\* Neither pays for a alone, d pays for all: the diamond counts a twice.
Diamond ==
    [Family EXCEPT !.fee = [a |-> 0, b |-> 0, c |-> 1, d |-> 4], !.blocks = {<<"a", "b">>},
                   !.fill = TRUE,
                   !.budget = "batches" :> 1 @@ "connects" :> 1 @@ "templates" :> 1 @@ NoEvents]

\* A block confirms a rival of b.
Conflict ==
    [Family EXCEPT !.rivals = [a |-> {}, b |-> {"c"}, c |-> {"b"}, d |-> {}],
                   !.parents["d"] = {"b"}, !.blocks = {<<"a">>, <<"c">>, <<"a", "c">>},
                   !.budget = "batches" :> 1 @@ "connects" :> 2 @@ "templates" :> 1 @@ NoEvents]

\* Blocks are disconnected and others connected.
Reorganised ==
    [Family EXCEPT !.chain = <<<<"a">>, <<"b">>>>, !.blocks = {<<"a", "b">>, <<"a", "c">>, <<"c">>},
                   !.refused = {"b"}, !.keep = 1,
                   !.budget = "batches" :> 1 @@ "connects" :> 2 @@ "disconnects" :> 2
                              @@ "templates" :> 1 @@ NoEvents]

\* Credits are given and taken, and the pool is rebuilt.
Credited ==
    [Family EXCEPT !.parents = [a |-> {}, b |-> {"a"}, c |-> {"b"}, d |-> {}],
                   !.deltas = {<<"a", 1>>, <<"b", -2>>},
                   !.budget = "batches" :> 2 @@ "prioritises" :> 2 @@ "rebuilds" :> 1
                              @@ "templates" :> 1 @@ NoEvents]

\* No groups: entries come to a pool that is full, owe too much or grow too old.
Trimmed ==
    [Base EXCEPT !.parents = [a |-> {}, b |-> {"a"}, c |-> {"a"}, d |-> {"c"}],
                 !.fee = [a |-> 1, b |-> 0, c |-> 2, d |-> 1],
                 !.limit = 3, !.secondary = 0, !.expiring = {"c"},
                 !.deltas = {<<"b", 3>>},
                 !.budget = "batches" :> 3 @@ "prioritises" :> 1 @@ "templates" :> 1 @@ NoEvents]

\* The pool is full when b pays for a, and they are worth more than the others.
Late ==
    [Base EXCEPT !.parents["b"] = {"a"}, !.fee = [a |-> 0, b |-> 4, c |-> 1, d |-> 0],
                 !.limit = 2, !.budget = "batches" :> 2 @@ "templates" :> 1 @@ NoEvents]
LatePools == {Late}

\* The pool is full when a debit of b disbands its group.
Disbanded ==
    [Late EXCEPT !.fee["d"] = 1, !.limit = 3, !.deltas = {<<"b", -4>>},
                 !.budget = "batches" :> 2 @@ "prioritises" :> 1 @@ NoEvents]

\* c owes for b and spends an output of a.  It may be mined once b is confirmed: by a
\* block made valid again, or by a second one of the activation that returned d.
SecondStep ==
    [Base EXCEPT !.parents["c"] = {"a", "b"}, !.fee["b"] = 0, !.chain = <<<<"d">>>>,
                 !.blocks = {<<>>, <<"b">>},
                 !.budget = "batches" :> 1 @@ "connects" :> 2 @@ "disconnects" :> 1 @@ NoEvents]
SecondSteps == {SecondStep}

\* The pool is full: c, a child of two members of a group, has to go.
Full ==
    [Base EXCEPT !.parents = [a |-> {}, b |-> {"a"}, c |-> {"a", "b"}, d |-> {}],
                 !.fee = [a |-> 0, b |-> 3, c |-> 1, d |-> 3],
                 !.limit = 3, !.budget = "batches" :> 1 @@ NoEvents]
FullPools == {Full}

\* b pays for a once the pool is full and has to go, without a.
Regrown == [Late EXCEPT !.fee["c"] = 4]
RegrownPools == {Regrown}

\* c, a child of a, keeps the group of a and b from being a candidate when a debit
\* of b disbands it; once c has to go nothing is one.
Lost ==
    [Base EXCEPT !.parents = [a |-> {}, b |-> {"a"}, c |-> {"a"}, d |-> {}],
                 !.fee = [a |-> 0, b |-> 3, c |-> 1, d |-> 1],
                 !.limit = 3, !.secondary = 2, !.deltas = {<<"b", -3>>},
                 !.budget = "batches" :> 2 @@ "prioritises" :> 1 @@ NoEvents]
LostPools == {Lost}

\* The group of a and b is disbanded by a debit of b; c owes for itself alone until then.
Debited ==
    [Base EXCEPT !.parents = [a |-> {}, b |-> {"a"}, c |-> {"a"}, d |-> {}],
                 !.fee = [a |-> 0, b |-> 2, c |-> 0, d |-> 1], !.deltas = {<<"b", -2>>},
                 !.budget = "batches" :> 1 @@ "prioritises" :> 1 @@ NoEvents]
Debits == {Debited}

\* b is credited while the batch that accepted its parent holds back its changes.
Overlapping == [Trimmed EXCEPT !.overlap = TRUE]
Overlaps == {Overlapping}

Situations == {Grouped, Diamond, Conflict, Reorganised, Credited, Trimmed, Late, Disbanded}
=============================================================================
