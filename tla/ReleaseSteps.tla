------------------------------ MODULE ReleaseSteps ------------------------------
(***************************************************************************)
(* The steps that judge the releases and the licence of a repository.  The *)
(* payload has the releases twice: the list of the REST API, empty when it *)
(* could not be fetched, and the one GitHub designates latest, from the    *)
(* GraphQL answer, which is blank when that resolved in part.  What is in  *)
(* the tree of the latest tag is asked for while the tag may be deleted.   *)
(***************************************************************************)
EXTENDS PayloadCache

ReleaseStep ==
  {"licensed", "licensedAgain", "found", "good", "identifier", "assets", "changelog",
   "signed", "links", "distribution"}

\* Of a release: whether it is out, when it came out (0 when that cannot be
\* parsed), if it has a tag, its name, its notes and what is attached to it.
Release ==
  [kind : {"stable", "prerelease", "draft"}, time : Nat, tagged : BOOLEAN,
   name : {"", "one", "two"}, notes : {"none", "plain", "changes"},
   asset : {"none", "plain", "identified", "companion", "manifest", "signature", "license"}]

\* The REST list, and the latest release of the GraphQL answer, {} when blank.
Releases == IF world.releasesError THEN {} ELSE world.releases
LatestRelease == IF world.partial THEN {} ELSE world.latest

\* What the root tree of the GraphQL answer, and its licence field, show.
RootHas(what) == ~world.partial /\ what \in world.root
LicenseInfo == IF world.partial THEN "none" ELSE world.license

--------------------------------------------------------------------------------
HasPublishedRelease == \E r \in Releases : r.kind # "draft"

\* latestPublishedRelease: the latest of those that have a date.
Dated == {r \in Releases : r.kind = "stable" /\ r.time > 0}
LatestPublished == CHOOSE r \in Dated : \A o \in Dated : o.time <= r.time

RefAssumed == {"present"} \* Bug: a tag without a licence is taken to be there

\* What GitHub answers about the tree of the tag: it says none also when the
\* tag is gone.
LicenseAtRef ==
  {"error", IF world.tag = "present" /\ world.shipped THEN "found" ELSE "none"}
RefExists == {"error", world.tag}

\* With no tag to look at, the default branch stands in.
Untagged(r) ==
  IF r.asset = "license" THEN "NeedsReview"
  ELSE IF LicenseInfo # "none" \/ RootHas("license") THEN "Passed" ELSE "Failed"

\* The tag of the latest release is asked for its licence.
AskLicense(s) ==
  /\ Runs(s) /\ running = "none"
  /\ ~world.releasesError /\ Dated # {} /\ LatestPublished.tagged
  /\ \E a \in LicenseAtRef : cache' = [cache EXCEPT !.license = GetLicenseAtRef(a)]
  /\ running' = s /\ UNCHANGED <<world, verdict, history>>

\* No licence is a failure only if the tag is still there.
ConcludeLicense(s) ==
  /\ running = s
  /\ \E there \in IF cache.license = "none" THEN RefExists ELSE {"present"} :
       Give(s, CASE cache.license = "found" -> "Passed"
                 [] cache.license = "error" \/ there # "present" -> "NeedsReview"
                 [] OTHER -> IF LatestPublished.asset = "license" THEN "NeedsReview" ELSE "Failed")
  /\ UNCHANGED <<world, cache, history>>

ReleasesLicensed(s) ==
  \/ world.releasesError /\ Judge(s, "NeedsReview")
  \/ ~world.releasesError /\ Dated = {} /\ Judge(s, "NotApplicable")
  \/ ~world.releasesError /\ Dated # {} /\ ~LatestPublished.tagged
       /\ Judge(s, Untagged(LatestPublished))
  \/ s \in world.suite /\ (AskLicense(s) \/ ConcludeLicense(s))

\* The maintainers delete the tag of a release while the scan goes on.
DeleteTag ==
  /\ world.suite \intersect {"licensed", "licensedAgain"} # {} /\ world.tag = "present"
  /\ world' = [world EXCEPT !.tag = "absent"]
  /\ UNCHANGED <<cache, verdict, running, history>>

FoundLicense ==
  Judge("found", IF LicenseInfo # "none" \/ RootHas("license") THEN "Passed" ELSE "Failed")

\* The licences named by GitHub or declared; GitHub cannot name all it finds.
Licenses == ({LicenseInfo} \intersect {"good", "bad"}) \union world.declaredLicenses

GoodLicense ==
  \/ Judge("good", "Unknown")  \* the list of approved licences could not be had
  \/ Judge("good", CASE Licenses = {} -> IF RootHas("license") THEN "NeedsReview" ELSE "Failed"
                     [] "bad" \in Licenses -> "Failed"
                     [] OTHER -> "Passed")

--------------------------------------------------------------------------------
ReleaseHasUniqueIdentifier ==
  Judge("identifier",
        IF Releases = {} THEN "NotApplicable"
        ELSE IF \A r, o \in Releases : r.name # "" /\ (r # o => r.name # o.name)
             THEN "Passed" ELSE "Failed")

ReleaseAssetsAssociatedWithRelease ==
  \/ LatestRelease = {} /\ Judge("assets", IF world.partial THEN "NeedsReview" ELSE "NotApplicable")
  \/ \E r \in LatestRelease :
       Judge("assets", CASE r.asset = "none" -> "NotApplicable"
                         [] r.asset = "identified" -> "Passed"
                         [] OTHER -> "NeedsReview")

\* It asks the REST list whether there is a release, and the GraphQL answer
\* what its notes say.
EnsureLatestReleaseHasChangelog ==
  Judge("changelog",
        CASE Releases = {} -> "NotApplicable"
          [] RootHas("changelog") -> "Passed"
          [] \E r \in LatestRelease : r.notes = "changes" -> "Passed"
          [] \A r \in LatestRelease : r.notes = "none" -> "Failed"
          [] OTHER -> "NeedsReview")

ReleasesAreSignedOrAttested ==
  LET Attached(kind) == \E r \in Releases : r.asset = kind
  IN  Judge("signed",
            CASE Releases = {} -> "NotApplicable"
              [] world.attested \/ Attached("signature") -> "Passed"
              [] Attached("manifest") \/ \A r \in Releases : r.asset = "none" -> "NeedsReview"
              [] OTHER -> "Failed")

\* The assets of a release, which GitHub serves over HTTPS.
Downloads == {"https" : r \in {o \in Releases : o.asset # "none"}}
Https(links) == IF "http" \in links THEN "Failed" ELSE "Passed"

EnsureInsightsLinksUseHTTPS ==
  Judge("links", Https(IF world.declaredLinks # {} THEN world.declaredLinks
                       ELSE world.homepage \union Downloads))

DistributionPointsUseHTTPS ==
  Judge("distribution",
        IF world.points \union Downloads = {} THEN "NotApplicable"
        ELSE Https(IF world.points # {} THEN world.points ELSE Downloads))

JudgeReleases ==
  \/ \E s \in {"licensed", "licensedAgain"} : ReleasesLicensed(s)
  \/ FoundLicense \/ GoodLicense \/ ReleaseHasUniqueIdentifier
  \/ ReleaseAssetsAssociatedWithRelease \/ EnsureLatestReleaseHasChangelog
  \/ ReleasesAreSignedOrAttested \/ EnsureInsightsLinksUseHTTPS \/ DistributionPointsUseHTTPS

--------------------------------------------------------------------------------
(* ReleasesLicensed must tell a licence that is missing from the released    *)
(* tree from a tag that is gone and from an answer it did not get, in either *)
(* of the two controls that run it and whenever the tag is deleted: a        *)
(* failure means that the tree was shipped without one, a pass that it has   *)
(* one, and "not applicable" that nothing stable is out.                     *)
LicenceVerdictsAreTrue ==
  \A s \in {"licensed", "licensedAgain"} \intersect world.suite :
    LET out == {r \in world.releases : r.kind = "stable" /\ r.time > 0}
        newest == {r \in out : \A o \in out : o.time <= r.time}
    IN  /\ verdict[s] = "NotApplicable" => out = {}
        /\ verdict[s] \in {"Passed", "Failed"} =>
             \E r \in newest : r.tagged => (world.shipped <=> verdict[s] = "Passed")
================================================================================
