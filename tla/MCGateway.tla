------------------------------ MODULE MCGateway ------------------------------
(***************************************************************************)
(* Two handlers at a time, of one of the mixes of requests: the mix is     *)
(* chosen at the start and stays.  Its chain bounds the records: a handler *)
(* that will append starts only while the chain has room for it and for    *)
(* the others.  Environment steps are those of its happens.                *)
(***************************************************************************)
EXTENDS Gateway

CONSTANTS e1, e2, w1, w2, Mixes

VARIABLE mix

\* The operator's side: suggestions and resolutions over what is shown; for one
\* event, also with INSERTs that commit late.
DecisionMix == [ops |-> {"curated"} \cup Suggestions \cup {"resolve"},
                events |-> {e1, e2}, happens |-> {}, chain |-> 3]
LateMix == [DecisionMix EXCEPT !.events = {e1}, !.happens = {"late"}]
\* The ingest side with exports and health checks, while rows break, are
\* restored, and alerts are cleared; and while INSERTs commit late and the
\* process is restarted.
AlertMix == [ops |-> Ingests \cup Reads,
             events |-> {e1}, happens |-> {"clear", "window", "chain"}, chain |-> 2]
RestartMix == [AlertMix EXCEPT !.happens = {"late", "restart"}, !.chain = 3]
\* Digests, and suggestions to be reviewed, whose alerts meet the same.
DigestMix == [AlertMix EXCEPT !.ops = {"digest", "resolve", "export"}]
ReviewMix == [AlertMix EXCEPT !.ops = {"curated", "suggest"}, !.happens = @ \cup {"restart"}]
MCMixes == {DecisionMix, LateMix, AlertMix, RestartMix, DigestMix, ReviewMix}
MCOneEvent == {[DecisionMix EXCEPT !.events = {e1}]}

MCDimsOf == [e \in Events |-> IF e = e1 THEN "d1" ELSE "d2"]
MCDigests == IF Cardinality(Events) = 1 THEN {<<e1>>} ELSE {<<e1, e2>>}
MCDigestDrifts == {<<"digest.low_freshness">>}

WillAppend(j) == j.pc \in {"add", "broadcast", "match", "decide", "append"}
Room == Len(chain) + Cardinality({w \in Workers : WillAppend(job[w])}) < mix.chain

\* Operators name the event of the decision they resolve, and one export or
\* health check runs at a time.
Consistent(j) ==
    /\ j.op \in mix.ops /\ j.event \in mix.events \cup {NoEvent}
    /\ j.op = "resolve" => j.event = IF j.ref = Foreign THEN e1 ELSE chain[j.ref].event
    /\ j.op \in Reads => \A w \in Workers : job[w].op \notin Reads

\* Only where "late" happens may an INSERT that was given up still commit.
LateHappens(records) == records # {} => "late" \in mix.happens

MCInit == Init /\ mix \in Mixes /\ LateHappens(late)

MCNext ==
    /\ \/ \E w \in Workers : \/ StartAny(w) /\ LET j == job[w]'
                                               IN  Consistent(j) /\ (WillAppend(j) => Room)
                             \/ Step(w) /\ LateHappens(late')
       \/ "clear" \in mix.happens /\ ClearAlerts
       \/ "window" \in mix.happens /\ WindowEnds
       \/ "chain" \in mix.happens /\ ChainChanges
       \/ LateCommit
       \/ "restart" \in mix.happens /\ Restart /\ LateHappens(late')
                                         /\ Len(chain') <= mix.chain
    /\ UNCHANGED mix

MCSpec == MCInit /\ [][MCNext]_<<gwVars, mix>>
Symmetry == Permutations(Workers)
=============================================================================
