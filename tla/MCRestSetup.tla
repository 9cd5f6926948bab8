------------------------------ MODULE MCRestSetup ------------------------------
(***************************************************************************)
(* RestSetup on six repositories: layouts of the two Security Insights     *)
(* files, SECURITY.md and .github, with the API settings furthest from the *)
(* zero values, or all of them at zero.                                    *)
(***************************************************************************)
EXTENDS RestSetup

Layout(yml, yaml, pol, dir) ==
  [place |-> [yml |-> yml, yaml |-> yaml, policy |-> pol], forgeDir |-> dir]

Layouts ==
  { Layout({}, {}, {}, FALSE),
    Layout({"forge"}, {"root"}, {"forge"}, TRUE),
    Layout({"root", "forge"}, {"root"}, {"root"}, TRUE) }

WithApi(layout, on, rel, adv) ==
  [place |-> layout.place, forgeDir |-> layout.forgeDir,
   actions |-> on, default |-> IF on THEN "read" ELSE "write",
   releases |-> rel, pvr |-> on, advisory |-> adv]

Full == {WithApi(l, TRUE, 1, AdvisoryPage + 1) : l \in Layouts}

\* A full page of releases, followed by an empty or a short one, and a full page
\* of advisories that is also the last.
Pages == {WithApi(Layout({}, {"forge"}, {"root", "forge"}, TRUE), TRUE, r, AdvisoryPage) :
            r \in {ReleasePage, ReleasePage + 1}}

Plain == {WithApi(Layout({}, {}, {"forge"}, TRUE), FALSE, 0, 0)}

MCWorlds == Full \union Pages \union Plain
===============================================================================
