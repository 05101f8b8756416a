---------------------------- MODULE MCOwnContract ----------------------------
(* Small scenes and a few repositories' facts for OwnContract. *)
EXTENDS OwnContract

MCTrees == {{}, {"sound"}, {"sound", "mild"}, {"sound", "bad"}}

Scene(asked, failing, unsound) == [checks |-> asked, faults |-> failing, unsound |-> unsound]

Alone ==
  AllChecks \ (Feeders \cup Measured
                 \cup {"format", "coverage", "crap", "mutation", "openssf-scorecard"})

MCScenes ==
  {Scene({c}, 2, 1) : c \in Alone} \cup
  {Scene(checks, 2, 2) : checks \in {{"format"}, {"mutation"}, {"build", "test-e2e"}}} \cup
  {Scene({"openssf-scorecard"}, 1, 2)} \cup
  {Scene({"crap"}, 1, 1)}

MCMutation == {Scene({"mutation"}, 1, 1)}

Answered ==
  [meta |-> "answered", protection |-> "answered", releases |-> "answered",
   people |-> "answered", checksYaml |-> "answered", goSource |-> "answered",
   licenseFile |-> TRUE, spdx |-> TRUE, policyFile |-> TRUE, contact |-> TRUE,
   mentions |-> 2, workflows |-> TRUE, pinned |-> 3, unpinned |-> 1, undeclared |-> 0,
   jobLevel |-> TRUE, spliced |-> FALSE, ciOnPullRequest |-> TRUE, ciTests |-> TRUE,
   private |-> FALSE, reviews |-> 1, dismissStale |-> TRUE, admins |-> TRUE, contexts |-> TRUE,
   released |-> 2, signed |-> 1, provenance |-> TRUE, humans |-> 1, archived |-> FALSE,
   ageDays |-> 400, idleDays |-> 30,
   risks |-> ("License" :> "low") @@ ("CodeReview" :> "high") @@ ("Maintained" :> "unheard"),
   riskWeights |-> ("low" :> 3) @@ ("high" :> 8)]

MCFacts ==
  {Answered,
   [Answered EXCEPT !.meta = "no gh", !.licenseFile = FALSE, !.policyFile = FALSE,
                    !.workflows = FALSE, !.ciTests = FALSE, !.private = TRUE],
   [Answered EXCEPT !.spdx = FALSE, !.contact = FALSE, !.protection = "missing",
                    !.undeclared = 2, !.spliced = TRUE, !.signed = 2, !.archived = TRUE,
                    !.goSource = "garbled"],
   [Answered EXCEPT !.protection = "failed", !.releases = "signed out", !.people = "failed",
                    !.pinned = 0, !.unpinned = 0, !.ageDays = 3, !.checksYaml = "failed"],
   [Answered EXCEPT !.provenance = FALSE, !.humans = 3, !.idleDays = 77, !.jobLevel = FALSE,
                    !.undeclared = 1, !.protection = "garbled", !.reviews = 0]}
=============================================================================
