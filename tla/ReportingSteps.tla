----------------------------- MODULE ReportingSteps -----------------------------
(***************************************************************************)
(* The steps on the reporting of vulnerabilities.  A channel is declared   *)
(* in Security Insights, described in a SECURITY.md that Setup looked for, *)
(* or GitHub's own private reporting, of which Setup may know nothing.     *)
(***************************************************************************)
EXTENDS DocWalk

CONSTANT SecurityPolicy  \* SECURITY.md, as one of the documents

ASSUME PolicyAssumption == SecurityPolicy \in Doc

ReportingStep == {"accepts", "contact", "disclosure", "private", "advisories"}

\* Setup saw a SECURITY.md in a listing it had: in the root's or in .github's.
PolicyIn(dir) == SecurityPolicy \in ToSet(world.tree[dir])
PolicyPresent ==
  \/ world.contents /\ PolicyIn("root")
  \/ world.listed /\ PolicyIn(Github)

\* What Security Insights declares of the reporting: that reports are accepted,
\* an address for them, one of a champion of security, a policy.
Reports(what) == ~world.insightsError /\ what \in world.reporting

\* Private reporting is enabled, as far as Setup knows.
Enabled == world.statusKnown /\ world.enabled

UnknownIsDisabled == "Failed" \* Bug: what could not be observed passes for disabled

Unconfirmed == IF world.statusKnown THEN "Failed" ELSE "NeedsReview"

AcceptsVulnReports ==
  Judge("accepts", IF Reports("accepted") \/ Enabled \/ PolicyPresent THEN "Passed" ELSE Unconfirmed)

HasSecContact ==
  Judge("contact",
        IF \/ Reports("email") \/ Reports("champion")
           \/ world.policyText = "contact" \/ Enabled THEN "Passed"
        ELSE IF PolicyPresent THEN "NeedsReview" ELSE "Failed")

HasVulnerabilityDisclosurePolicy ==
  Judge("disclosure",
        IF Reports("policy") THEN "Passed"
        ELSE IF PolicyPresent \/ (world.policyEnabled /\ ~world.partial) THEN "NeedsReview"
        ELSE "Failed")

HasPrivateVulnerabilityReporting ==
  Judge("private",
        IF \/ Reports("accepted") /\ (Reports("email") \/ Reports("champion"))
           \/ Enabled THEN "Passed"
        ELSE Unconfirmed)

PublishesVulnerabilityData ==
  Judge("advisories", IF world.advisories = "some" THEN "Passed" ELSE "NeedsReview")

JudgeReporting ==
  \/ AcceptsVulnReports \/ HasSecContact \/ HasVulnerabilityDisclosurePolicy
  \/ HasPrivateVulnerabilityReporting \/ PublishesVulnerabilityData

--------------------------------------------------------------------------------
(* "An error or missing endpoint leaves Known false rather than reporting a  *)
(* confident Enabled=false" (vuln_reporting.go:11): a step that knows of     *)
(* this distinction fails no repository that has private reporting enabled,  *)
(* observed or not, or reports declared in a file that could be read; and no *)
(* step on channels misses a SECURITY.md in the listings Setup was given,    *)
(* that of .github by whichever of its loaders.                              *)
ChannelsAreNotDenied ==
  /\ \A s \in {"accepts", "private"} :
       Given(s, "Failed") =>
         ~world.enabled /\ (world.insightsError \/ ~({"accepted", "email"} \subseteq world.reporting))
  /\ \A s \in {"accepts", "contact", "disclosure"} :
       Given(s, "Failed") /\ world.contents /\ (InTree(Github) => world.listed) =>
         ~PolicyIn("root") /\ (InTree(Github) => ~PolicyIn(Github))
================================================================================
