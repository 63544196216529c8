------------------------------- MODULE Deploys -------------------------------
(***************************************************************************)
(* internal/investigators/deploys: the evidence in what GitHub answers.  A *)
(* closed pull request is [number, created, updated, merged], merged being *)
(* NoTime when it was only closed; a release is [published, draft], newest *)
(* first.                                                                  *)
(***************************************************************************)
EXTENDS Incidents

CONSTANT PerPage   \* per_page; nothing asks for a second page
ASSUME PerPageAssumption == PerPage \in Nat \ {0}

\* The order GitHub is asked for: sort=updated, direction=desc.
UpdatedLater(p, q) == p.updated > q.updated

\* Mutant of ListMergedPRs: GitHub's default order, the newest ones first.
ListMergedPRsByCreation(closed) ==
    LET CreatedLater(p, q) == p.created > q.created
    IN  Selected(Truncate(SliceStable(closed, CreatedLater), PerPage),
                  LAMBDA p : p.merged # NoTime)

ListMergedPRs(closed) ==
    Selected(Truncate(SliceStable(closed, UpdatedLater), PerPage),
              LAMBDA p : p.merged # NoTime)

\* In percent, by how close to the trigger.
Confidence(at, inc) ==
    LET gap == End(inc) - at
    IN  CASE gap < 15 * Minute -> 90
          [] gap >= 15 * Minute /\ gap < 30 * Minute -> 70
          [] gap >= 30 * Minute -> 40

\* investigateRepo's two loops.
PullRequestEvidence(repo, closed, inc) ==
    LET prs == Selected(ListMergedPRs(closed), LAMBDA p : InWindow(p.merged, inc))
    IN  [k \in DOMAIN prs |->
            MergedPR(repo, prs[k].number, prs[k].merged, Confidence(prs[k].merged, inc))]

ReleaseEvidence(repo, releases, inc) ==
    LET rels == Selected(Truncate(releases, PerPage),
                          LAMBDA r : ~r.draft /\ InWindow(r.published, inc))
    IN  [k \in DOMAIN rels |->
            Release(repo, rels[k].published, Confidence(rels[k].published, inc))]
=============================================================================
