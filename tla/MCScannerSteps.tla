----------------------------- MODULE MCScannerSteps -----------------------------
(***************************************************************************)
(* ScannerSteps on a workflow ci of two jobs, of which one may call lib,   *)
(* with two jobs, of which one may call deep, with one.  Gates varies the  *)
(* conditions along one call and who scans; Calls the calls, cycles and    *)
(* unreadable files among them; Names has a job named as a scanner is;     *)
(* Views varies what is required, seen and documented.  A name occurs      *)
(* twice: a job of lib is called as the one of deep is.                    *)
(***************************************************************************)
EXTENDS ScannerSteps

G(c, i) == [cond |-> c, ignore |-> i]
Works == G("yes", "no")
Skipped == G("no", "no")
Unsure == G("unknown", "no")
Gates == {Works, Skipped, Unsure, G("yes", "yes"), G("no", "unknown")}

Scan(t) == [tool |-> t, gate |-> Works]
Off(t) == [tool |-> t, gate |-> Skipped]
Maybe(t) == [tool |-> t, gate |-> Unsure]

OfJob == [a |-> "ci", b |-> "ci", c |-> "lib", d |-> "lib", e |-> "deep"]
Names == [a |-> "A", b |-> "B", c |-> "C", d |-> "D", e |-> "D"]

\* One call of lib, by a; b and d may scan as well; e is out of the way.
Base ==
  [of |-> OfJob, name |-> Names,
   uses |-> [a |-> "lib", b |-> "steps", c |-> "steps", d |-> "steps", e |-> "steps"],
   gate |-> [j \in Job |-> Works],
   steps |-> [a |-> <<>>, b |-> <<>>, c |-> <<Scan("t1")>>, d |-> <<>>, e |-> <<>>],
   needs |-> {}, file |-> [f \in File |-> "clean"],
   on |-> [ci |-> "covering", lib |-> "other", deep |-> "other"]]

Chain2 == <<"A", "C">>
Chain3 == <<"A", "C", "D">>

NoneRequired == [classic |-> {}, free |-> {}, pinned |-> {}]
Demand(S) == [NoneRequired EXCEPT !.classic = S]
NoPolicy == [declared |-> {}, documented |-> {}, docs |-> "silent", config |-> FALSE]
AllPolicies == [declared |-> {"t1"}, documented |-> {"t1"}, docs |-> "exception", config |-> FALSE]
AllSeen == [files |-> TRUE, rulesets |-> TRUE, classic |-> TRUE, admin |-> TRUE,
            insights |-> TRUE, docs |-> TRUE, unprotected |-> FALSE]

Repositories(flows, demands, policies, sights) ==
  {w \in [flow : flows, required : demands, policy : policies, sight : sights] : w \in World}

GateFlows ==
  {[Base EXCEPT !.gate["a"] = ga, !.gate["c"] = gc, !.steps["c"] = sc, !.steps["d"] = sd,
                !.steps["b"] = sb] :
     ga \in Gates, gc \in Gates,
     sc \in {<<>>, <<Scan("t1")>>, <<Off("t1"), Scan("t2")>>, <<Maybe("t1")>>},
     sd \in {<<>>, <<Scan("t2")>>, <<Maybe("t2")>>}, sb \in {<<>>, <<Scan("t1")>>}}

CallFlows ==
  {[Base EXCEPT !.uses["a"] = ua, !.uses["c"] = uc, !.uses["e"] = ue,
                !.steps["c"] = IF uc = "steps" THEN <<Scan("t1")>> ELSE <<>>,
                !.steps["e"] = IF ue = "steps" THEN <<Scan("t1")>> ELSE <<>>,
                !.gate["c"] = gc, !.needs = n, !.name["c"] = nc,
                !.file["lib"] = fl, !.on["ci"] = oc, !.on["lib"] = ol] :
     ua \in {"lib", "absent", "remote", "t1"}, uc \in {"steps", "deep", "lib", "t1"},
     ue \in {"steps", "lib", "t1"}, gc \in {Works, Unsure},
     n \in {{}, {"c"}, {"e"}}, nc \in {"C", Dynamic},
     fl \in {"clean", "flawed", "unreadable"}, oc \in {"covering", "doubtful"},
     ol \in {"other", "covering"}}

ViewFlows ==
  {[Base EXCEPT !.steps["c"] = sc, !.steps["b"] = sb] :
     sc \in {<<>>, <<Scan("t1")>>, <<Off("t1")>>}, sb \in {<<>>, <<Scan("t2")>>}}

\* A called job that has the name of another scanner.
NameFlows ==
  {[Base EXCEPT !.name["c"] = "t2", !.gate["a"] = ga, !.steps["c"] = <<Scan(t)>>,
                !.steps["d"] = sd] :
     ga \in Gates, t \in Tool, sd \in {<<>>, <<Scan("t2")>>}}

Some == {{}, {Chain2}, {<<"B">>}}
Views ==
  Repositories(ViewFlows,
    [classic : Some, free : Some, pinned : {{}, {Chain2}}],
    {[declared |-> dl, documented |-> dc, docs |-> ds, config |-> cf] :
       dl \in {{}, {"t1"}}, dc \in {{}, {"t1"}}, ds \in {"silent", "policy", "exception"},
       cf \in {FALSE}} \union {[NoPolicy EXCEPT !.config = TRUE]},
    {AllSeen, [AllSeen EXCEPT !.unprotected = TRUE], [AllSeen EXCEPT !.files = FALSE],
     [AllSeen EXCEPT !.rulesets = FALSE], [AllSeen EXCEPT !.classic = FALSE],
     [AllSeen EXCEPT !.classic = FALSE, !.admin = FALSE],
     [AllSeen EXCEPT !.insights = FALSE], [AllSeen EXCEPT !.docs = FALSE]})

MCWorlds ==
  Repositories(GateFlows, {Demand(S) : S \in {{Chain2}, {<<"A", "D">>}, {<<"B">>}}},
               {AllPolicies}, {AllSeen})
  \union
  Repositories(CallFlows, {Demand(S) : S \in {{Chain2}, {Chain3}, {<<"A", "D">>}}},
               {AllPolicies, NoPolicy}, {AllSeen})
  \union
  Repositories(NameFlows, {Demand({n}) : n \in {<<"C">>, <<"t1">>, <<"t2">>, <<"A", "t2">>}},
               {AllPolicies, [AllPolicies EXCEPT !.documented = {}]}, {AllSeen})
  \union Views
===============================================================================
