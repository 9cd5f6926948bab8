--------------------------- MODULE MCProtectionSteps ---------------------------
(***************************************************************************)
(* ProtectionSteps on two families of repositories.  The one has every     *)
(* classic protection with at most one approval, every set of rules with   *)
(* at most two pull_request rules of at most one approval, and no checks.  *)
(* The other has a workflow of three jobs.  The job build goes by a name   *)
(* of each style, next to a job docs whose name begins with build's in     *)
(* each of the ways that the code tells apart (or does not), and a gate;   *)
(* they are wired in six ways (a chain, a cycle and no needs among them).  *)
(* What ran and what is required is chosen so that each check is met by    *)
(* name, through the gate, by one source only, or not.                     *)
(***************************************************************************)
EXTENDS ProtectionSteps

SmallClassics ==
  {NoClassic} \union
  {c \in [exists : {TRUE}, restricts : BOOLEAN, reviews : BOOLEAN, approvals : {0, 1},
          stale : BOOLEAN, deletions : BOOLEAN, force : BOOLEAN, contexts : {{}}] :
     ~c.reviews => c.approvals = 0}

SmallRulesets ==
  {r \in [update : BOOLEAN, deletion : BOOLEAN, prs : {<<>>, <<0>>, <<1>>, <<0, 1>>},
          stale : BOOLEAN, contexts : {{}}, other : BOOLEAN] : r.stale => r.prs # <<>>}

Needs(b, d, g) == [build |-> b, docs |-> d, gate |-> g]
Wirings ==
  { Needs({}, {}, {}), Needs({}, {}, {"build"}), Needs({"docs"}, {}, {"build"}),
    Needs({"docs"}, {"build"}, {"docs"}), Needs({"gate"}, {}, {"docs"}),
    Needs({}, {}, {"build", "gate"}) }

Build == <<"build">>
Docs == <<"docs">>
Gate == <<"gate">>
Linux(mark) == Build \o mark \o <<"linux">>

\* A name of build with the name a check of it has, and a name of docs.
Naming(s, l, c, d) == [style |-> s, label |-> l, check |-> c, docs |-> d]
Namings ==
  { Naming("plain", Build, Build, Build \o <<" ", "docs">>),
    Naming("matrix", Build, Linux(Paren), Docs),
    Naming("matrix", Build, Linux(Paren), Build \o Paren \o Docs),
    Naming("call", Build, Linux(Slash), Build \o Slash \o Docs),
    Naming("calls", Build, Linux(Paren) \o Slash \o Docs, Docs),
    Naming("calls", Build, Linux(Paren) \o Slash \o Docs, Build \o Slash \o Docs),
    Naming("expression", Build \o <<" ">>, Linux(<<" ">>), Build \o <<" ", "docs">>),
    Naming("expression", <<>>, <<"linux">>, Docs) }

NoWorkflow ==
  [needs |-> Needs({}, {}, {}), label |-> [j \in Job |-> <<j>>],
   style |-> [j \in Job |-> "plain"], gates |-> {}]

CheckOf(n, j) == [name |-> n, source |-> j]
Dco == CheckOf(<<"dco">>, "dco")

WithContexts(S) ==
  IF S = {} THEN NoClassic ELSE [NoClassic EXCEPT !.exists = TRUE, !.contexts = S]

BranchWorlds ==
  [classic : SmallClassics, rulesets : SmallRulesets, workflow : {NoWorkflow},
   ran : {{}}, admin : BOOLEAN]

Workflows(n) ==
  [needs : Wirings, label : {[build |-> n.label, docs |-> n.docs, gate |-> Gate]},
   style : {[build |-> n.style, docs |-> "plain", gate |-> "plain"]}, gates : {{}, {"gate"}}]

RunsOf(n) ==
  LET build == CheckOf(n.check, "build")
      docs  == CheckOf(n.docs, "docs")
      gate  == CheckOf(Gate, "gate")
  IN {{Dco}, {build}, {docs, gate}, {build, docs, Dco}}

CheckWorlds ==
  UNION {[classic : {WithContexts(S) : S \in {{}, {Gate}, {<<"dco">>, n.docs}}},
          rulesets : {[NoRules EXCEPT !.contexts = S] : S \in {{}, {Gate}, {<<"dco">>}}},
          workflow : Workflows(n), ran : RunsOf(n), admin : BOOLEAN] : n \in Namings}

MCWorlds == BranchWorlds \union CheckWorlds
===============================================================================
