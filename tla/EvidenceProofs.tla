--------------------------- MODULE EvidenceProofs ---------------------------
(***************************************************************************)
(* The evidence: what a live investigator makes of the answers it gets,    *)
(* and how the correlating ranker sorts it.                                *)
(* A live investigator shows, of each reply, what it selects of it; that   *)
(* the evidence of a source that answered is all its replies show, and     *)
(* nothing else, is the invariant (LiveInv), and the properties are facts  *)
(* about the selections.  The ranker, whatever order the map of buckets is *)
(* walked in, sorts and caps some listing of the buckets, each once        *)
(* (RankerInv), and the properties follow from what the sort returns and   *)
(* from where every item of a hypothesis is in the evidence.               *)
(***************************************************************************)
EXTENDS CorrelatingRanker, LiveInvestigators, ListProofs, TLAPS

-----------------------------------------------------------------------------
(* The selections of the live investigators. *)

\* What the pull requests GitHub answers become: of those merged inside the
\* window, all but the ones a whole page of others was updated after.
LEMMA PullRequestsReported ==
  ASSUME NEW repo, NEW i, NEW closed, IsList(closed),
         \A k \in DOMAIN closed : closed[k].updated \in Int,
         NEW e, e = PullRequestEvidence(repo, closed, i)
  PROVE  LET As(p) == MergedPR(repo, closed[p].number, closed[p].merged,
                                Confidence(closed[p].merged, i))
         IN  /\ IsList(e)
             /\ \A k \in DOMAIN e :
                   \E p \in DOMAIN closed : InWindow(closed[p].merged, i) /\ e[k] = As(p)
             /\ \A p \in DOMAIN closed :
                   InWindow(closed[p].merged, i) =>
                   \/ \E k \in DOMAIN e : e[k] = As(p)
                   \/ \E f \in [1..PerPage -> DOMAIN closed] :
                         /\ \A j, k \in 1..PerPage : j # k => f[j] # f[k]
                         /\ \A k \in 1..PerPage :
                               f[k] # p /\ closed[p].updated <= closed[f[k]].updated
  <1>. DEFINE As(p) == MergedPR(repo, closed[p].number, closed[p].merged,
                                Confidence(closed[p].merged, i))
              Of(pr) == MergedPR(repo, pr.number, pr.merged, Confidence(pr.merged, i))
  <1>1. PICK level : level = [k \in DOMAIN closed |-> closed[k].updated]
    OBVIOUS
  <1>2. \A k \in DOMAIN closed : level[k] \in Int /\ level[k] = closed[k].updated
    BY <1>1
  <1>3. PICK less : less = {p \in (DOMAIN closed) \X (DOMAIN closed) : level[p[1]] > level[p[2]]}
    OBVIOUS
  <1>4. PICK page : page = Truncate(Picked(closed, DOMAIN closed, less), PerPage)
    OBVIOUS
  <1>5. IsList(page) /\ \E from : KeptTop(page, closed, level, PerPage, from)
    <2>1. PerPage \in Nat
      BY PerPageAssumption
    <2>. QED  BY <1>2, <1>3, <1>4, <2>1, CutKeepsTop
  <1>6. PICK from : KeptTop(page, closed, level, PerPage, from)
    BY <1>5
  <1>7. PICK merges : merges = {k \in DOMAIN page : page[k].merged # NoTime}
    OBVIOUS
  <1>8. PICK listed : listed = Picked(page, merges, {})
    OBVIOUS
  <1>9. /\ IsList(listed)
        /\ \A k \in DOMAIN listed : \E q \in merges : listed[k] = page[q]
        /\ \A q \in merges : \E k \in DOMAIN listed : listed[k] = page[q]
    <2>1. merges \in SUBSET (DOMAIN page)
      BY <1>7
    <2>. QED  BY <1>5, <1>8, <2>1, FilteredList
  <1>10. PICK near : near = {k \in DOMAIN listed : InWindow(listed[k].merged, i)}
    OBVIOUS
  <1>11. PICK prs : prs = Picked(listed, near, {})
    OBVIOUS
  <1>12. /\ IsList(prs)
         /\ \A k \in DOMAIN prs : \E q \in near : prs[k] = listed[q]
         /\ \A q \in near : \E k \in DOMAIN prs : prs[k] = listed[q]
    <2>1. near \in SUBSET (DOMAIN listed)
      BY <1>10
    <2>. QED  BY <1>9, <1>11, <2>1, FilteredList
  <1>13. e = [k \in DOMAIN prs |-> Of(prs[k])]
    <2>1. less = {p \in (DOMAIN closed) \X (DOMAIN closed) :
                     closed[p[1]].updated > closed[p[2]].updated}
      BY <1>2, <1>3
    <2>2. ListMergedPRs(closed) = listed
      BY <1>4, <1>7, <1>8, <2>1 DEF ListMergedPRs, SliceStable, UpdatedLater, Selected
    <2>. QED  BY <1>10, <1>11, <2>2 DEF PullRequestEvidence, Selected
  <1>14. IsList(e)
    <2>1. Len(prs) \in Nat /\ DOMAIN prs = 1..Len(prs)
      BY <1>12, ListShape
    <2>2. DOMAIN e = 1..Len(prs) /\ e = [k \in 1..Len(prs) |-> e[k]]
      BY <1>13, <2>1
    <2>. QED  BY <2>1, <2>2, ListMade
  <1>15. ASSUME NEW k \in DOMAIN e
         PROVE  \E p \in DOMAIN closed : InWindow(closed[p].merged, i) /\ e[k] = As(p)
    <2>1. k \in DOMAIN prs /\ e[k] = Of(prs[k])
      BY <1>13
    <2>2. PICK q \in near : prs[k] = listed[q]
      BY <1>12, <2>1
    <2>3. q \in DOMAIN listed /\ InWindow(listed[q].merged, i)
      BY <1>10
    <2>4. PICK r \in DOMAIN page : listed[q] = page[r]
      BY <1>7, <1>9, <2>3
    <2>5. page[r] = closed[from[r]] /\ from[r] \in DOMAIN closed
      BY <1>6 DEF KeptTop
    <2>. QED  BY <2>1, <2>2, <2>3, <2>4, <2>5
  <1>16. ASSUME NEW p \in DOMAIN closed, InWindow(closed[p].merged, i),
                NEW k \in DOMAIN page, from[k] = p
         PROVE  \E j \in DOMAIN e : e[j] = As(p)
    <2>1. page[k] = closed[p]
      BY <1>6, <1>16 DEF KeptTop
    <2>2. PICK q \in DOMAIN listed : listed[q] = page[k]
      <3>1. k \in merges
        BY <1>7, <1>16, <2>1 DEF InWindow
      <3>. QED  BY <1>9, <3>1
    <2>3. PICK r \in DOMAIN prs : prs[r] = listed[q]
      <3>1. q \in near
        BY <1>10, <1>16, <2>1, <2>2
      <3>. QED  BY <1>12, <3>1
    <2>. QED  BY <1>13, <2>1, <2>2, <2>3
  <1>17. ASSUME NEW p \in DOMAIN closed, InWindow(closed[p].merged, i)
         PROVE  \/ \E k \in DOMAIN e : e[k] = As(p)
                \/ \E f \in [1..PerPage -> DOMAIN closed] :
                         /\ \A j, k \in 1..PerPage : j # k => f[j] # f[k]
                         /\ \A k \in 1..PerPage :
                               f[k] # p /\ closed[p].updated <= closed[f[k]].updated
    <2>1. CASE \E k \in DOMAIN page : from[k] = p
      BY <1>16, <1>17, <2>1
    <2>2. CASE \A k \in DOMAIN page : from[k] # p
      <3>1. /\ Len(page) = PerPage
            /\ \A k \in DOMAIN page : level[p] <= level[from[k]]
        BY <1>6, <2>2 DEF KeptTop
      <3>2. DOMAIN page = 1..PerPage
        BY <1>5, <3>1, ListShape
      <3>3. /\ from \in [1..PerPage -> DOMAIN closed]
            /\ \A j, k \in 1..PerPage : j # k => from[j] # from[k]
        BY <1>6, <3>2 DEF KeptTop
      <3>4. \A k \in 1..PerPage : from[k] # p /\ closed[p].updated <= closed[from[k]].updated
        BY <1>2, <2>2, <3>1, <3>2, <3>3
      <3>. QED  BY <3>3, <3>4
    <2>. QED  BY <2>1, <2>2
  <1>. HIDE DEF As
  <1>. QED  BY <1>14, <1>15, <1>17 DEF As

\* The releases, events and pods of a reply are reported one by one: dated
\* inside the window, but the pods, which have none.
LEMMA ReleasesReported ==
  ASSUME NEW repo, NEW i, NEW releases, IsList(releases),
         \A k \in DOMAIN releases : releases[k].published \in SomeTime,
         NEW e, e = ReleaseEvidence(repo, releases, i)
  PROVE  /\ IsList(e)
         /\ \A k \in DOMAIN e :
               \E t \in Int : InWindow(t, i) /\ e[k] = Release(repo, t, Confidence(t, i))
  <1>. DEFINE Of(r) == Release(repo, r.published, Confidence(r.published, i))
  <1>1. PICK page : page = Truncate(releases, PerPage)
    OBVIOUS
  <1>2. IsList(page) /\ \A k \in DOMAIN page : page[k].published \in SomeTime
    BY <1>1, PerPageAssumption, CutList
  <1>3. PICK near : near = {k \in DOMAIN page : ~page[k].draft /\ InWindow(page[k].published, i)}
    OBVIOUS
  <1>4. PICK rels : rels = Picked(page, near, {})
    OBVIOUS
  <1>5. IsList(rels) /\ \A k \in DOMAIN rels : \E p \in near : rels[k] = page[p]
    <2>1. near \in SUBSET (DOMAIN page)
      BY <1>3
    <2>. QED  BY <1>2, <1>4, <2>1, FilteredList
  <1>6. e = [k \in DOMAIN rels |-> Of(rels[k])]
    BY <1>1, <1>3, <1>4 DEF ReleaseEvidence, Selected
  <1>7. IsList(e)
    <2>1. e = [k \in DOMAIN rels |-> e[k]]
      BY <1>6
    <2>. QED  BY <1>5, <2>1, MappedList
  <1>8. ASSUME NEW k \in DOMAIN e
        PROVE  \E t \in Int : InWindow(t, i) /\ e[k] = Release(repo, t, Confidence(t, i))
    <2>1. k \in DOMAIN rels /\ e[k] = Of(rels[k])
      BY <1>6
    <2>2. InWindow(rels[k].published, i) /\ rels[k].published \in SomeTime
      BY <1>2, <1>3, <1>5, <2>1
    <2>3. rels[k].published \in Int
      BY <2>2 DEF InWindow, SomeTime
    <2>. QED  BY <2>1, <2>2, <2>3
  <1>. QED  BY <1>7, <1>8

LEMMA EventsReported ==
  ASSUME NEW ns, NEW i, NEW events, IsList(events),
         NEW e, e = EventEvidence(ns, events, i)
  PROVE  /\ IsList(e)
         /\ \A k \in DOMAIN e :
               \E t, c : InWindow(t, i) /\ e[k] = WarningEvent(ns, t, c)
  <1>. DEFINE Of(v) == WarningEvent(ns, EventTime(v), EventConfidence(v, i))
  <1>1. PICK near : near = {k \in DOMAIN events : /\ events[k].type = "Warning"
                                                   /\ InWindow(EventTime(events[k]), i)}
    OBVIOUS
  <1>2. PICK warnings : warnings = Picked(events, near, {})
    OBVIOUS
  <1>3. IsList(warnings) /\ \A k \in DOMAIN warnings : \E p \in near : warnings[k] = events[p]
    <2>1. near \in SUBSET (DOMAIN events)
      BY <1>1
    <2>. QED  BY <1>2, <2>1, FilteredList
  <1>4. e = [k \in DOMAIN warnings |-> Of(warnings[k])]
    BY <1>1, <1>2 DEF EventEvidence, Selected
  <1>5. IsList(e)
    <2>1. e = [k \in DOMAIN warnings |-> e[k]]
      BY <1>4
    <2>. QED  BY <1>3, <2>1, MappedList
  <1>6. ASSUME NEW k \in DOMAIN e
        PROVE  \E t, c : InWindow(t, i) /\ e[k] = WarningEvent(ns, t, c)
    <2>1. k \in DOMAIN warnings /\ e[k] = Of(warnings[k])
      BY <1>4
    <2>2. InWindow(EventTime(warnings[k]), i)
      BY <1>1, <1>3, <2>1
    <2>. QED  BY <2>1, <2>2
  <1>. QED  BY <1>5, <1>6

LEMMA PodsReported ==
  ASSUME NEW ns, NEW now, NEW pods, IsList(pods), \A k \in DOMAIN pods : pods[k].name # NoName,
         NEW e, e = PodEvidence(ns, pods, now)
  PROVE  /\ IsList(e)
         /\ \A k \in DOMAIN e :
               \E pod, c : pod # NoName /\ e[k] = UnhealthyPod(ns, pod, now, c)
  <1>. DEFINE Of(p) == UnhealthyPod(ns, p.name, now,
                                    IF "CrashLoopBackOff" \in p.waiting THEN 90 ELSE 60)
  <1>1. PICK ill : ill = {k \in DOMAIN pods : Unhealthy(pods[k])}
    OBVIOUS
  <1>2. PICK sick : sick = Picked(pods, ill, {})
    OBVIOUS
  <1>3. IsList(sick) /\ \A k \in DOMAIN sick : \E p \in ill : sick[k] = pods[p]
    <2>1. ill \in SUBSET (DOMAIN pods)
      BY <1>1
    <2>. QED  BY <1>2, <2>1, FilteredList
  <1>4. e = [k \in DOMAIN sick |-> Of(sick[k])]
    BY <1>1, <1>2 DEF PodEvidence, Selected
  <1>5. IsList(e)
    <2>1. e = [k \in DOMAIN sick |-> e[k]]
      BY <1>4
    <2>. QED  BY <1>3, <2>1, MappedList
  <1>6. ASSUME NEW k \in DOMAIN e
        PROVE  \E pod, c : pod # NoName /\ e[k] = UnhealthyPod(ns, pod, now, c)
    <2>1. k \in DOMAIN sick /\ e[k] = Of(sick[k])
      BY <1>4
    <2>2. sick[k].name # NoName
      BY <1>1, <1>3, <2>1
    <2>. QED  BY <2>1, <2>2
  <1>. QED  BY <1>5, <1>6

\* Of the series or streams of a reply that can be reported, the loudest are.
Loudest(e, all, level) ==
    /\ Len(e) = Min({3, Len(all)})
    /\ \E of \in [DOMAIN e -> DOMAIN all] :
          /\ \A j, k \in DOMAIN e : j # k => of[j] # of[k]
          /\ \A k \in DOMAIN e : e[k].labels = all[of[k]].labels
          /\ \A j \in DOMAIN all, k \in DOMAIN e :
                (\A m \in DOMAIN e : of[m] # j) => level[j] <= level[of[k]]

LEMMA SmallerOfTwo == \A n \in Nat : Min({3, n}) = IF 3 < n THEN 3 ELSE n
  <1>1. ASSUME NEW n \in Nat
        PROVE  Min({3, n}) = IF 3 < n THEN 3 ELSE n
    <2>. DEFINE x == IF 3 < n THEN 3 ELSE n
    <2>1. x \in {3, n} /\ \A y \in {3, n} : x <= y
      OBVIOUS
    <2>2. \A z \in {3, n} : (\A y \in {3, n} : z <= y) => z = x
      OBVIOUS
    <2>. HIDE DEF x
    <2>3. (CHOOSE z \in {3, n} : \A y \in {3, n} : z <= y) = x
      BY <2>1, <2>2
    <2>. QED  BY <2>3 DEF Min, x
  <1>. QED  BY <1>1

LEMMA LoudestReported ==
  ASSUME NEW all, IsList(all), NEW level, \A k \in DOMAIN all : level[k] \in Int,
         NEW less, less = {p \in (DOMAIN all) \X (DOMAIN all) : level[p[1]] > level[p[2]]},
         NEW most \in Nat, most = 3,
         NEW top, top = Truncate(Picked(all, DOMAIN all, less), most),
         NEW e, DOMAIN e = DOMAIN top, e = [k \in DOMAIN e |-> e[k]],
         \A k \in DOMAIN e : e[k].labels = top[k].labels
  PROVE  IsList(e) /\ Loudest(e, all, level)
  <1>1. IsList(top) /\ \E from : KeptTop(top, all, level, most, from)
    BY CutKeepsTop
  <1>2. Len(top) = IF most < Len(all) THEN most ELSE Len(all)
    BY CutKeepsTop
  <1>3. PICK from : KeptTop(top, all, level, most, from)
    BY <1>1
  <1>4. IsList(e) /\ Len(e) = Len(top)
    BY <1>1, MappedList
  <1>5. Len(e) = Min({3, Len(all)})
    <2>1. PICK n \in Nat : n = Len(all)
      BY ListShape
    <2>2. Len(e) = IF 3 < n THEN 3 ELSE n
      BY <1>2, <1>4, <2>1
    <2>3. Min({3, n}) = IF 3 < n THEN 3 ELSE n
      BY SmallerOfTwo
    <2>. QED  BY ONLY <2>1, <2>2, <2>3
  <1>6. from \in [DOMAIN e -> DOMAIN all] /\ \A j, k \in DOMAIN e : j # k => from[j] # from[k]
    BY <1>3 DEF KeptTop
  <1>7. \A k \in DOMAIN e : e[k].labels = all[from[k]].labels
    BY <1>3 DEF KeptTop
  <1>8. ASSUME NEW j \in DOMAIN all, NEW k \in DOMAIN e, \A m \in DOMAIN e : from[m] # j
        PROVE  level[j] <= level[from[k]]
    BY <1>3, <1>8 DEF KeptTop
  <1>. QED  BY <1>4, <1>5, <1>6, <1>7, <1>8 DEF Loudest

LEMMA StreamsReported ==
  ASSUME NEW ns, NEW reply, IsList(reply), \A k \in DOMAIN reply : reply[k].count \in Nat,
         NEW all, all = Selected(reply, LAMBDA s : s.count > 0),
         NEW e, e = StreamEvidence(ns, reply),
         NEW level, level = [k \in DOMAIN all |-> all[k].count]
  PROVE  /\ IsList(e) /\ Loudest(e, all, level)
         /\ \A k \in DOMAIN e : e[k].source = "logs"
  <1>. DEFINE Pod(s) == IF s.labels["pod"] = NoName THEN UnknownPod ELSE s.labels["pod"]
              Of(s) == ErrorPattern(ns, Pod(s), s.labels, s.newest, ConfidenceForCount(s.count))
  <1>1. PICK loud : loud = {k \in DOMAIN reply : reply[k].count > 0}
    OBVIOUS
  <1>2. all = Picked(reply, loud, {})
    BY <1>1 DEF Selected
  <1>3. IsList(all) /\ \A k \in DOMAIN all : \E p \in loud : all[k] = reply[p]
    <2>1. loud \in SUBSET (DOMAIN reply)
      BY <1>1
    <2>. QED  BY <1>2, <2>1, FilteredList
  <1>4. \A k \in DOMAIN all : level[k] \in Int /\ level[k] = all[k].count
    BY <1>1, <1>3
  <1>5. PICK less : less = {p \in (DOMAIN all) \X (DOMAIN all) : level[p[1]] > level[p[2]]}
    OBVIOUS
  <1>6. PICK most \in Nat : most = 3
    OBVIOUS
  <1>7. PICK top : top = Truncate(Picked(all, DOMAIN all, less), most)
    OBVIOUS
  <1>8. e = [k \in DOMAIN top |-> Of(top[k])]
    <2>1. less = {p \in (DOMAIN all) \X (DOMAIN all) : all[p[1]].count > all[p[2]].count}
      BY <1>4, <1>5
    <2>. QED  BY <1>7, <1>6, <2>1 DEF StreamEvidence, SliceStable, Noisier, MaxStreamsReported
  <1>9. DOMAIN e = DOMAIN top /\ e = [k \in DOMAIN e |-> e[k]]
    BY <1>8
  <1>10. \A k \in DOMAIN e : e[k].labels = top[k].labels /\ e[k].source = "logs"
    BY <1>8 DEF ErrorPattern, Evidence
  <1>11. IsList(e) /\ Loudest(e, all, level)
    <2>1. IsList(all) /\ \A k \in DOMAIN all : level[k] \in Int
      BY <1>3, <1>4
    <2>2. \A k \in DOMAIN e : e[k].labels = top[k].labels
      BY <1>10
    <2>3. most \in Nat
      OBVIOUS
    <2>. QED  BY ONLY <2>1, <2>2, <2>3, <1>5, <1>7, <1>9, <1>6, LoudestReported
  <1>. QED  BY <1>10, <1>11

\* A series is reported only with the samples that are numbers, and has one:
\* its peak is a number.
LEMMA UsableHavePeaks ==
  ASSUME NEW reply, IsList(reply),
         \A k \in DOMAIN reply :
            /\ DOMAIN reply[k] = {"labels", "samples"} /\ IsList(reply[k].samples)
            /\ \A x \in ToSet(reply[k].samples) : x.v \in Int \cup {NoValue},
         NEW all, all = Usable(reply)
  PROVE  IsList(all) /\ \A k \in DOMAIN all : Peak(all[k]) \in Int
  <1>. DEFINE Clean(s) == [s EXCEPT !.samples = Selected(@, LAMBDA x : x.v # NoValue)]
  <1>1. PICK cleaned : cleaned = [k \in DOMAIN reply |-> Clean(reply[k])]
    OBVIOUS
  <1>2. IsList(cleaned) /\ DOMAIN cleaned = DOMAIN reply
    <2>1. cleaned = [k \in DOMAIN reply |-> cleaned[k]]
      BY <1>1
    <2>. QED  BY <2>1, MappedList
  <1>3. PICK heardOf : heardOf = {k \in DOMAIN cleaned : cleaned[k].samples # <<>>}
    OBVIOUS
  <1>4. all = Picked(cleaned, heardOf, {})
    BY <1>1, <1>3 DEF Usable, Selected
  <1>5. IsList(all) /\ \A k \in DOMAIN all : \E p \in heardOf : all[k] = cleaned[p]
    <2>1. heardOf \in SUBSET (DOMAIN cleaned)
      BY <1>3
    <2>. QED  BY <1>2, <1>4, <2>1, FilteredList
  <1>6. ASSUME NEW p \in heardOf
        PROVE  Peak(cleaned[p]) \in Int
    <2>1. PICK raw : raw = reply[p].samples
      OBVIOUS
    <2>2. PICK numbers : numbers = {j \in DOMAIN raw : raw[j].v # NoValue}
      OBVIOUS
    <2>3. PICK samples : samples = Picked(raw, numbers, {})
      OBVIOUS
    <2>4. p \in DOMAIN reply /\ cleaned[p].samples = samples
      <3>1. p \in DOMAIN reply /\ cleaned[p] = Clean(reply[p])
        BY <1>1, <1>2, <1>3
      <3>2. Clean(reply[p]).samples = Selected(reply[p].samples, LAMBDA x : x.v # NoValue)
        BY <3>1
      <3>3. Selected(reply[p].samples, LAMBDA x : x.v # NoValue) = samples
        BY <2>1, <2>2, <2>3 DEF Selected
      <3>. QED  BY <3>1, <3>2, <3>3
    <2>5. IsList(raw) /\ \A j \in DOMAIN raw : raw[j].v \in Int \cup {NoValue}
      BY <2>1, <2>4 DEF ToSet
    <2>6. IsList(samples) /\ \A j \in DOMAIN samples : \E q \in numbers : samples[j] = raw[q]
      <3>1. numbers \in SUBSET (DOMAIN raw)
        BY <2>2
      <3>. QED  BY <2>3, <2>5, <3>1, FilteredList
    <2>7. \A j \in DOMAIN samples : samples[j].v \in Int
      BY <2>2, <2>5, <2>6
    <2>8. PICK v : v = [j \in DOMAIN samples |-> samples[j].v]
      OBVIOUS
    <2>9. \A j \in DOMAIN samples : v[j] \in Int /\ v[j] = samples[j].v
      BY <2>7, <2>8
    <2>10. samples # <<>>
      BY <1>3, <2>4
    <2>11. PICK j \in DOMAIN samples : \A k \in DOMAIN samples : v[k] <= v[j]
      BY <2>6, <2>9, <2>10, OneIsGreatest
    <2>12. PICK values : values = {samples[k].v : k \in DOMAIN samples}
      OBVIOUS
    <2>13. v[j] \in values /\ values \in SUBSET Int /\ \A y \in values : v[j] >= y
      BY <2>9, <2>11, <2>12
    <2>14. Max(values) \in values
      BY <2>13 DEF Max
    <2>. QED  BY <2>4, <2>12, <2>13, <2>14 DEF Peak
  <1>. QED  BY <1>5, <1>6

LEMMA SeriesReported ==
  ASSUME NEW reply, NEW all, all = Usable(reply),
         IsList(all), \A k \in DOMAIN all : Peak(all[k]) \in Int,
         NEW e, e = SeriesEvidence(reply),
         NEW level, level = [k \in DOMAIN all |-> Peak(all[k])]
  PROVE  /\ IsList(e) /\ Loudest(e, all, level)
         /\ \A k \in DOMAIN e : e[k].source = "prometheus"
  <1>. DEFINE At(s) == s.samples[Len(s.samples)].t
              Of(s) == MetricSeries(s.labels, Unix(At(s)) * TicksPerSecond,
                                    SpikeConfidence(s.samples[1].v, Peak(s)))
  <1>1. \A k \in DOMAIN all : level[k] \in Int /\ level[k] = Peak(all[k])
    OBVIOUS
  <1>2. PICK less : less = {p \in (DOMAIN all) \X (DOMAIN all) : level[p[1]] > level[p[2]]}
    OBVIOUS
  <1>3. PICK most \in Nat : most = 3
    OBVIOUS
  <1>4. PICK top : top = Truncate(Picked(all, DOMAIN all, less), most)
    OBVIOUS
  <1>5. e = [k \in DOMAIN top |-> Of(top[k])]
    <2>1. less = {p \in (DOMAIN all) \X (DOMAIN all) : Peak(all[p[1]]) > Peak(all[p[2]])}
      BY <1>1, <1>2
    <2>. QED  BY <1>3, <1>4, <2>1 DEF SeriesEvidence, SliceStable, Louder, MaxSeriesPerQuery
  <1>6. DOMAIN e = DOMAIN top /\ e = [k \in DOMAIN e |-> e[k]]
    BY <1>5
  <1>7. \A k \in DOMAIN e : e[k].labels = top[k].labels /\ e[k].source = "prometheus"
    BY <1>5 DEF MetricSeries, Evidence
  <1>8. IsList(e) /\ Loudest(e, all, level)
    <2>1. IsList(all) /\ \A k \in DOMAIN all : level[k] \in Int
      BY <1>1
    <2>2. \A k \in DOMAIN e : e[k].labels = top[k].labels
      BY <1>7
    <2>3. most \in Nat
      OBVIOUS
    <2>. QED  BY ONLY <2>1, <2>2, <2>3, <1>2, <1>3, <1>4, <1>6, LoudestReported
  <1>. QED  BY <1>7, <1>8

-----------------------------------------------------------------------------
(* A call: what its sources would answer, and what that shows. *)

Called ==
    /\ who \in Who /\ inc \in Incidents
    /\ world \in [DOMAIN Sources -> Answers[who]]
    /\ found = [k \in DOMAIN world |->
                   [n \in DOMAIN world[k] |-> EvidenceIn(Sources[k], n, world[k][n])]]

LEMMA DistinctIsList ==
  ASSUME NEW s, IsList(s)
  PROVE  IsList(Distinct(s))
  <1>1. PICK firsts : firsts = {k \in DOMAIN s : \A j \in DOMAIN s : j < k => s[j] # s[k]}
    OBVIOUS
  <1>2. PICK d : d = Picked(s, firsts, {})
    OBVIOUS
  <1>3. firsts \in SUBSET (DOMAIN s)
    BY <1>1
  <1>4. IsList(d)
    BY <1>2, <1>3, FilteredList
  <1>. QED  BY <1>1, <1>2, <1>4 DEF Distinct

LEMMA NamesAreListed ==
  ASSUME NEW defaults, IsList(defaults), NEW names, IsList(names)
  PROVE  IsList(NameSet(defaults, names))
  <1>1. PICK all : all = defaults \o names
    OBVIOUS
  <1>2. IsList(all)
    BY <1>1, JoinedList
  <1>3. PICK trimmed : trimmed = [k \in DOMAIN all |-> Trim[all[k]]]
    OBVIOUS
  <1>4. IsList(trimmed)
    <2>1. trimmed = [k \in DOMAIN all |-> trimmed[k]]
      BY <1>3
    <2>. QED  BY <1>2, <2>1, MappedList
  <1>5. PICK named : named = {k \in DOMAIN trimmed : trimmed[k] # NoName}
    OBVIOUS
  <1>6. PICK kept : kept = Picked(trimmed, named, {})
    OBVIOUS
  <1>7. IsList(kept)
    <2>1. named \in SUBSET (DOMAIN trimmed)
      BY <1>5
    <2>. QED  BY <1>4, <1>6, <2>1, FilteredList
  <1>8. NameSet(defaults, names) = Distinct(kept)
    BY <1>1, <1>3, <1>5, <1>6 DEF NameSet, Selected
  <1>. QED  BY <1>7, <1>8, DistinctIsList

LEMMA SourcesAreListed ==
  ASSUME Called
  PROVE  IsList(Sources)
  <1>1. /\ IsList(DefaultRepos) /\ IsList(DefaultNamespaces)
        /\ IsList(inc.scope.repos) /\ IsList(inc.scope.namespaces) /\ IsList(inc.alerts)
    BY IncidentsAssumption DEF Called
  <1>2. CASE who = "deploys"
    BY <1>1, <1>2, NamesAreListed DEF Sources
  <1>3. CASE who = "kubernetes"
    BY <1>1, <1>3, NamesAreListed DEF Sources
  <1>4. CASE who = "prometheus"
    <2>1. PICK alerts : alerts = inc.alerts
      OBVIOUS
    <2>2. PICK exprs : exprs = [k \in DOMAIN alerts |-> alerts[k].expr]
      OBVIOUS
    <2>3. IsList(exprs)
      <3>1. exprs = [k \in DOMAIN alerts |-> exprs[k]]
        BY <2>2
      <3>. QED  BY <1>1, <2>1, <3>1, MappedList
    <2>4. PICK given : given = {k \in DOMAIN exprs : exprs[k] # NoName}
      OBVIOUS
    <2>5. PICK kept : kept = Picked(exprs, given, {})
      OBVIOUS
    <2>6. IsList(kept)
      <3>1. given \in SUBSET (DOMAIN exprs)
        BY <2>4
      <3>. QED  BY <2>3, <2>5, <3>1, FilteredList
    <2>7. Sources = Distinct(kept)
      BY <1>4, <2>1, <2>2, <2>4, <2>5 DEF Sources, ExtractQueries, Selected
    <2>. QED  BY <2>6, <2>7, DistinctIsList
  <1>5. CASE who = "logs"
    BY <1>1, <1>5 DEF Sources
  <1>6. who \in Who
    BY DEF Called
  <1>. QED  BY <1>2, <1>3, <1>4, <1>5, <1>6 DEF Who

LEMMA Replies ==
  ASSUME Called, NEW k \in DOMAIN world
  PROVE  /\ world[k] \in Answers[who]
         /\ IsList(world[k]) /\ Len(world[k]) \in {1, 2}
         /\ who \in {"deploys", "kubernetes"} <=> Len(world[k]) = 2
         /\ DOMAIN world[k] = 1..Len(world[k])
         /\ DOMAIN found[k] = 1..Len(world[k]) /\ Len(found[k]) = Len(world[k])
         /\ \A n \in DOMAIN world[k] :
               found[k][n] = EvidenceIn(Sources[k], n, world[k][n])
  <1>1. PICK w : w = world[k]
    OBVIOUS
  <1>2. w \in Answers[who] /\ who \in Who
    BY <1>1 DEF Called
  <1>3. /\ IsList(w) /\ Len(w) \in {1, 2}
        /\ who \in {"deploys", "kubernetes"} <=> Len(w) = 2
    <2>1. CASE who = "deploys"
      BY <1>2, <2>1, DeploysAssumption
    <2>2. CASE who = "kubernetes"
      BY <1>2, <2>2, KubernetesAssumption
    <2>3. CASE who = "prometheus"
      BY <1>2, <2>3, PrometheusAssumption
    <2>4. CASE who = "logs"
      BY <1>2, <2>4, LogsAssumption
    <2>. QED  BY <1>2, <2>1, <2>2, <2>3, <2>4 DEF Who
  <1>4. Len(w) \in Nat /\ DOMAIN w = 1..Len(w)
    BY <1>3, ListShape
  <1>5. found[k] = [n \in DOMAIN w |-> EvidenceIn(Sources[k], n, w[n])]
    BY <1>1 DEF Called
  <1>6. DOMAIN found[k] = 1..Len(w) /\ Len(found[k]) = Len(w)
    <2>1. DOMAIN found[k] = 1..Len(w)
      BY <1>4, <1>5
    <2>. QED  BY <1>4, <2>1
  <1>. QED  BY <1>1, <1>2, <1>3, <1>4, <1>5, <1>6

\* Whatever a source shows is dated inside the window, if it is a deploy, a
\* release or an event; and how much a deploy weighs is a matter of when.
Fits(e) ==
    /\ Dated(e) => InWindow(e.at, inc)
    /\ who = "deploys" => Dated(e) /\ e.at \in Int /\ e.confidence = Confidence(e.at, inc)

LEMMA EvidenceFits ==
  ASSUME Called, NEW k \in DOMAIN world, NEW n \in DOMAIN world[k]
  PROVE  IsList(found[k][n]) /\ \A j \in DOMAIN found[k][n] : Fits(found[k][n][j])
  <1>1. PICK reply, src, e : reply = world[k][n] /\ src = Sources[k] /\ e = found[k][n]
    OBVIOUS
  <1>2. /\ world[k] \in Answers[who] /\ n \in {1, 2}
        /\ who \notin {"deploys", "kubernetes"} => n = 1
        /\ e = EvidenceIn(src, n, reply)
    <2>1. n \in 1..Len(world[k]) /\ Len(world[k]) \in {1, 2}
      BY Replies
    <2>2. who \in {"deploys", "kubernetes"} <=> Len(world[k]) = 2
      BY Replies
    <2>. QED  BY <1>1, <2>1, <2>2, Replies
  <1>3. who \in Who
    BY DEF Called
  <1>4. SUFFICES IsList(e) /\ \A j \in DOMAIN e : Fits(e[j])
    BY <1>1
  <1>5. CASE who = "deploys" /\ n = 1
    <2>1. /\ IsList(reply)
          /\ \A p \in DOMAIN reply : reply[p].updated \in Int /\ reply[p].merged \in SomeTime
      BY <1>1, <1>2, <1>5, DeploysAssumption
    <2>2. e = PullRequestEvidence(src, reply, inc)
      BY <1>2, <1>5 DEF EvidenceIn
    <2>3. /\ IsList(e)
          /\ \A j \in DOMAIN e : \E p \in DOMAIN reply :
                /\ InWindow(reply[p].merged, inc)
                /\ e[j] = MergedPR(src, reply[p].number, reply[p].merged,
                                    Confidence(reply[p].merged, inc))
      BY <2>1, <2>2, PullRequestsReported
    <2>4. ASSUME NEW j \in DOMAIN e
          PROVE  Fits(e[j])
      <3>1. PICK p \in DOMAIN reply :
                /\ InWindow(reply[p].merged, inc)
                /\ e[j] = MergedPR(src, reply[p].number, reply[p].merged,
                                    Confidence(reply[p].merged, inc))
        BY <2>3
      <3>2. reply[p].merged \in Int
        BY <2>1, <3>1 DEF InWindow, SomeTime
      <3>3. PICK at : at = reply[p].merged
        OBVIOUS
      <3>4. /\ e[j].at = at /\ e[j].confidence = Confidence(at, inc)
            /\ e[j].source = "github.deploys"
        BY <3>1, <3>3 DEF MergedPR, Evidence
      <3>. QED  BY <3>1, <3>2, <3>3, <3>4 DEF Fits, Dated
    <2>. QED  BY <2>3, <2>4
  <1>6. CASE who = "deploys" /\ n = 2
    <2>1. IsList(reply) /\ \A p \in DOMAIN reply : reply[p].published \in SomeTime
      BY <1>1, <1>2, <1>6, DeploysAssumption
    <2>2. e = ReleaseEvidence(src, reply, inc)
      BY <1>2, <1>6 DEF EvidenceIn
    <2>3. /\ IsList(e)
          /\ \A j \in DOMAIN e : \E t \in Int :
                InWindow(t, inc) /\ e[j] = Release(src, t, Confidence(t, inc))
      BY <2>1, <2>2, ReleasesReported
    <2>4. ASSUME NEW j \in DOMAIN e
          PROVE  Fits(e[j])
      <3>1. PICK at \in Int : InWindow(at, inc) /\ e[j] = Release(src, at, Confidence(at, inc))
        BY <2>3
      <3>2. /\ e[j].at = at /\ e[j].confidence = Confidence(at, inc)
            /\ e[j].source = "github.deploys"
        BY <3>1 DEF Release, Evidence
      <3>. QED  BY <3>1, <3>2 DEF Fits, Dated
    <2>. QED  BY <2>3, <2>4
  <1>7. CASE who = "kubernetes" /\ n = 1
    <2>1. IsList(reply)
      BY <1>1, <1>2, <1>7, KubernetesAssumption
    <2>2. e = EventEvidence(src, reply, inc)
      BY <1>2, <1>7 DEF EvidenceIn
    <2>3. /\ IsList(e)
          /\ \A j \in DOMAIN e : \E t, c :
                InWindow(t, inc) /\ e[j] = WarningEvent(src, t, c)
      BY <2>1, <2>2, EventsReported
    <2>. QED  BY <1>7, <2>3 DEF Fits, WarningEvent, Evidence
  <1>8. CASE who = "kubernetes" /\ n = 2
    <2>1. IsList(reply) /\ \A p \in DOMAIN reply : reply[p].name # NoName
      BY <1>1, <1>2, <1>8, KubernetesAssumption
    <2>2. e = PodEvidence(src, reply, Now)
      BY <1>2, <1>8 DEF EvidenceIn
    <2>3. /\ IsList(e)
          /\ \A j \in DOMAIN e : \E pod, c :
                pod # NoName /\ e[j] = UnhealthyPod(src, pod, Now, c)
      BY <2>1, <2>2, PodsReported
    <2>4. ASSUME NEW j \in DOMAIN e
          PROVE  ~Dated(e[j])
      <3>1. PICK pod, c : pod # NoName /\ e[j] = UnhealthyPod(src, pod, Now, c)
        BY <2>3
      <3>2. e[j].source = "kubernetes" /\ e[j].data["pod"] = pod
        BY <3>1 DEF UnhealthyPod, Evidence, NoKeys, ScopeKey
      <3>. QED  BY <3>1, <3>2 DEF Dated
    <2>. QED  BY <1>8, <2>3, <2>4 DEF Fits
  <1>9. CASE who = "prometheus"
    <2>1. /\ IsList(reply)
          /\ \A p \in DOMAIN reply :
                /\ DOMAIN reply[p] = {"labels", "samples"} /\ IsList(reply[p].samples)
                /\ \A x \in ToSet(reply[p].samples) : x.v \in Int \cup {NoValue}
      BY <1>1, <1>2, <1>9, PrometheusAssumption
    <2>2. PICK all : all = Usable(reply)
      OBVIOUS
    <2>3. IsList(all) /\ \A p \in DOMAIN all : Peak(all[p]) \in Int
      BY <2>1, <2>2, UsableHavePeaks
    <2>4. e = SeriesEvidence(reply)
      BY <1>2, <1>9 DEF EvidenceIn
    <2>5. IsList(e) /\ \A j \in DOMAIN e : e[j].source = "prometheus"
      BY <2>2, <2>3, <2>4, SeriesReported
    <2>. QED  BY <1>9, <2>5 DEF Fits, Dated
  <1>10. CASE who = "logs"
    <2>1. IsList(reply) /\ \A p \in DOMAIN reply : reply[p].count \in Nat
      BY <1>1, <1>2, <1>10, LogsAssumption
    <2>2. e = StreamEvidence(src, reply)
      BY <1>2, <1>10 DEF EvidenceIn
    <2>3. IsList(e) /\ \A j \in DOMAIN e : e[j].source = "logs"
      BY <2>1, <2>2, StreamsReported
    <2>. QED  BY <1>10, <2>3 DEF Fits, Dated
  <1>. QED  BY <1>2, <1>3, <1>5, <1>6, <1>7, <1>8, <1>9, <1>10 DEF Who

-----------------------------------------------------------------------------
(* What holds all along. *)

LiveInv ==
    /\ Called
    /\ turn \in Nat \ {0} /\ asked \in {0, 1}
    /\ asked = 0 => part = <<>>
    /\ asked = 1 => turn \in DOMAIN world /\ Len(world[turn]) = 2 /\ part = found[turn][1]
    /\ IsList(out) /\ \A k \in DOMAIN out : Fits(out[k])
    /\ \A h \in heard : h[1] \in DOMAIN world /\ h[2] = FlattenSeq(found[h[1]])

LEMMA WorldIsListed ==
  ASSUME Called
  PROVE  /\ Len(world) \in Nat /\ DOMAIN world = 1..Len(world)
         /\ DOMAIN found = DOMAIN world
  <1>1. PICK n \in Nat : DOMAIN Sources = 1..n
    BY SourcesAreListed, ListShape
  <1>2. DOMAIN world = 1..n /\ DOMAIN found = DOMAIN world
    BY <1>1 DEF Called
  <1>3. Len(world) = n
    BY <1>2
  <1>. QED  BY <1>2, <1>3

\* The last answer of a source completes all it has.
LEMMA LastCompletes ==
  ASSUME LiveInv, turn <= Len(world), asked + 1 = Len(world[turn])
  PROVE  /\ turn \in DOMAIN world
         /\ part \o found[turn][asked + 1] = FlattenSeq(found[turn])
         /\ IsList(FlattenSeq(found[turn]))
         /\ \A k \in DOMAIN FlattenSeq(found[turn]) : Fits(FlattenSeq(found[turn])[k])
  <1>1. Called /\ turn \in DOMAIN world
    BY WorldIsListed DEF LiveInv
  <1>2. PICK lists : lists = found[turn]
    OBVIOUS
  <1>3. /\ Len(lists) \in {1, 2} /\ Len(lists) = Len(world[turn])
        /\ DOMAIN world[turn] = 1..Len(lists)
    BY <1>1, <1>2, Replies
  <1>4. \A n \in 1..Len(lists) : IsList(lists[n]) /\ \A j \in DOMAIN lists[n] : Fits(lists[n][j])
    BY <1>1, <1>2, <1>3, EvidenceFits
  <1>5. CASE Len(lists) = 1
    <2>1. asked = 0 /\ part = <<>>
      BY <1>3, <1>5 DEF LiveInv
    <2>2. PICK T : lists[1] \in Seq(T)
      BY <1>4, <1>5 DEF IsList
    <2>3. <<>> \o lists[1] = lists[1]
      BY <2>2
    <2>4. FlattenSeq(lists) = lists[1]
      BY <1>5, FlattenOne
    <2>5. part \o lists[asked + 1] = FlattenSeq(lists)
      BY <2>1, <2>3, <2>4
    <2>. QED  BY <1>1, <1>2, <1>4, <1>5, <2>5, <2>4
  <1>6. CASE Len(lists) = 2
    <2>1. asked = 1 /\ part = lists[1]
      BY <1>2, <1>3, <1>6 DEF LiveInv
    <2>2. FlattenSeq(lists) = lists[1] \o lists[2]
      BY <1>6, FlattenTwo
    <2>3. part \o lists[asked + 1] = FlattenSeq(lists)
      BY <2>1, <2>2
    <2>4. PICK first, rest, both : first = lists[1] /\ rest = lists[2] /\ both = first \o rest
      OBVIOUS
    <2>5. /\ IsList(first) /\ \A j \in DOMAIN first : Fits(first[j])
          /\ IsList(rest) /\ \A j \in DOMAIN rest : Fits(rest[j])
      BY <1>4, <1>6, <2>4
    <2>6. IsList(both) /\ ToSet(both) = ToSet(first) \cup ToSet(rest)
      <3>1. IsList(first) /\ IsList(rest) /\ both = first \o rest
        BY <2>4, <2>5
      <3>. QED  BY ONLY <3>1, JoinedList
    <2>7. IsList(both) /\ \A j \in DOMAIN both : Fits(both[j])
      BY <2>5, <2>6 DEF ToSet
    <2>8. FlattenSeq(lists) = both
      BY <2>4, <2>2
    <2>. QED  BY <1>1, <1>2, <2>3, <2>7, <2>8
  <1>. QED  BY <1>3, <1>5, <1>6

LEMMA LiveInit == Init => LiveInv
  <1>. SUFFICES ASSUME Init
                PROVE  LiveInv
    OBVIOUS
  <1>1. Called
    BY DEF Init, Called
  <1>2. IsList(<<>>)
    BY DEF IsList
  <1>. QED  BY <1>1, <1>2 DEF Init, LiveInv

LEMMA CalledStays ==
  ASSUME Called, UNCHANGED call
  PROVE  Called'
  <1>1. who' = who /\ inc' = inc /\ world' = world /\ found' = found
    BY DEF call
  <1>2. Sources' = Sources
    BY <1>1 DEF Sources
  <1>3. ASSUME NEW src, NEW n, NEW reply
        PROVE  EvidenceIn(src, n, reply)' = EvidenceIn(src, n, reply)
    BY <1>1 DEF EvidenceIn
  <1>. QED  BY <1>1, <1>2, <1>3 DEF Called

LEMMA FitsStays == \A e : Fits(e) /\ UNCHANGED call => Fits(e)'
  BY DEF Fits, call

LEMMA LiveStep == LiveInv /\ [Next]_vars => LiveInv'
  <1>. SUFFICES ASSUME LiveInv, [Next]_vars
                PROVE  LiveInv'
    OBVIOUS
  <1>1. UNCHANGED call
    BY DEF Next, vars, call, AnswerPart, AnswerLast, Fail, Return, Cancel
  <1>2. Called' /\ \A e : Fits(e) => Fits(e)'
    BY <1>1, CalledStays, FitsStays DEF LiveInv
  <1>3. who' = who /\ inc' = inc /\ world' = world /\ found' = found
    BY <1>1 DEF call
  <1>4. CASE AnswerPart
    <2>1. turn \in DOMAIN world /\ Len(world[turn]) = 2 /\ asked = 0
      <3>1. Called /\ turn \in DOMAIN world
        BY <1>4, WorldIsListed DEF LiveInv, AnswerPart, Asking
      <3>2. PICK n \in {1, 2} : n = Len(world[turn])
        BY <3>1, Replies
      <3>3. asked \in {0, 1} /\ asked + 1 < n
        BY <1>4, <3>2 DEF LiveInv, AnswerPart
      <3>4. n = 2 /\ asked = 0
        <4>1. PICK a \in {0, 1} : a = asked
          BY <3>3
        <4>2. a + 1 < n
          BY <3>3, <4>1
        <4>3. n = 2 /\ a = 0
          BY ONLY n \in {1, 2}, <4>1, <4>2
        <4>. QED  BY <4>1, <4>3
      <3>. QED  BY <3>1, <3>2, <3>4
    <2>2. part' = found[turn][1] /\ asked' = 1
      <3>1. PICK x, T : x = found[turn][1] /\ x \in Seq(T)
        <4>1. 1 \in DOMAIN world[turn]
          BY <2>1, Replies DEF LiveInv
        <4>2. IsList(found[turn][1])
          BY <2>1, <4>1, EvidenceFits DEF LiveInv
        <4>. QED  BY <4>2 DEF IsList
      <3>2. <<>> \o x = x
        BY <3>1
      <3>3. part = <<>> /\ part' = part \o found[turn][asked + 1] /\ asked' = asked + 1
        BY <1>4, <2>1 DEF LiveInv, AnswerPart
      <3>. QED  BY <2>1, <3>1, <3>2, <3>3
    <2>3. turn' = turn /\ out' = out /\ heard' = heard
      BY <1>4 DEF AnswerPart
    <2>4. IsList(out)' /\ \A k \in DOMAIN out' : Fits(out[k])'
      BY <1>2, <2>3 DEF LiveInv
    <2>. QED  BY <1>2, <1>3, <2>1, <2>2, <2>3, <2>4 DEF LiveInv
  <1>5. CASE AnswerLast
    <2>1. PICK all : all = part \o found[turn][asked + 1]
      OBVIOUS
    <2>2. /\ turn \in DOMAIN world /\ all = FlattenSeq(found[turn])
          /\ IsList(all) /\ \A k \in DOMAIN all : Fits(all[k])
      BY <1>5, <2>1, LastCompletes DEF AnswerLast, Asking
    <2>3. out' = out \o all /\ heard' = heard \cup {<<turn, all>>}
      BY <1>5, <2>1 DEF AnswerLast
    <2>4. turn' = turn + 1 /\ asked' = 0 /\ part' = <<>>
      BY <1>5 DEF AnswerLast, NextSource
    <2>5. PICK before, after : before = out /\ after = out'
      OBVIOUS
    <2>6. IsList(before) /\ \A k \in DOMAIN before : Fits(before[k])
      BY <2>5 DEF LiveInv
    <2>7. IsList(after) /\ ToSet(after) = ToSet(before) \cup ToSet(all)
      <3>1. IsList(before) /\ IsList(all) /\ after = before \o all
        BY <2>2, <2>3, <2>5, <2>6
      <3>. QED  BY ONLY <3>1, JoinedList
    <2>8. \A k \in DOMAIN after : Fits(after[k])
      BY <2>2, <2>6, <2>7 DEF ToSet
    <2>9. IsList(out)' /\ \A k \in DOMAIN out' : Fits(out[k])'
      BY <1>2, <2>5, <2>7, <2>8
    <2>10. \A h \in heard' : h[1] \in DOMAIN world' /\ h[2] = FlattenSeq(found[h[1]])'
      BY <1>3, <2>2, <2>3 DEF LiveInv
    <2>. QED  BY <1>2, <2>4, <2>9, <2>10 DEF LiveInv
  <1>6. CASE Fail
    <2>1. turn' = turn + 1 /\ asked' = 0 /\ part' = <<>> /\ out' = out /\ heard' = heard
      BY <1>6 DEF Fail, NextSource
    <2>2. IsList(out)' /\ \A k \in DOMAIN out' : Fits(out[k])'
      BY <1>2, <2>1 DEF LiveInv
    <2>. QED  BY <1>2, <1>3, <2>1, <2>2 DEF LiveInv
  <1>7. CASE UNCHANGED <<turn, asked, part, out, heard>>
    <2>1. IsList(out)' /\ \A k \in DOMAIN out' : Fits(out[k])'
      BY <1>2, <1>7 DEF LiveInv
    <2>. QED  BY <1>2, <1>3, <1>7, <2>1 DEF LiveInv
  <1>. QED  BY <1>4, <1>5, <1>6, <1>7 DEF Next, vars, Return, Cancel

LEMMA LiveAlways == Spec => []LiveInv
  BY LiveInit, LiveStep, PTL DEF Spec

-----------------------------------------------------------------------------

\* The nearer a deploy is to the trigger, the more it weighs.
LEMMA NearerWeighsMore ==
  ASSUME NEW i, i.triggeredAt \in Int, NEW at \in Int, NEW later \in Int, at <= later
  PROVE  Confidence(at, i) <= Confidence(later, i)
  <1>1. PICK trigger \in Int : trigger = i.triggeredAt
    OBVIOUS
  <1>2. PICK near \in Int, far \in Int : near = 15 * Minute /\ far = 30 * Minute /\ near < far
    BY ClockAssumption DEF Minute
  <1>3. ASSUME NEW t \in Int
        PROVE  /\ trigger - t < near => Confidence(t, i) = 90
               /\ trigger - t >= near /\ trigger - t < far => Confidence(t, i) = 70
               /\ trigger - t >= far => Confidence(t, i) = 40
    BY <1>1, <1>2 DEF Confidence, End
  <1>. QED  BY <1>3

\* Deploys, releases and warning events are reported only inside the window,
\* and the deploy nearer to the trigger never weighs less.
THEOREM LiveEvidenceInWindow == Spec => []EvidenceInWindow
  <1>1. LiveInv => EvidenceInWindow
    <2>. SUFFICES ASSUME LiveInv
                  PROVE  EvidenceInWindow
      OBVIOUS
    <2>1. \A e \in ToSet(out) : Fits(e)
      BY DEF LiveInv, ToSet
    <2>2. inc.triggeredAt \in Int
      BY IncidentsAssumption DEF LiveInv, Called
    <2>3. ASSUME NEW e \in ToSet(out), Dated(e)
          PROVE  inc.triggeredAt - inc.window <= e.at /\ e.at <= inc.triggeredAt
      BY <2>1, <2>3 DEF Fits, InWindow, Start, End
    <2>4. ASSUME NEW e \in ToSet(out), NEW f \in ToSet(out), who = "deploys", e.at <= f.at
          PROVE  e.confidence <= f.confidence
      <3>1. /\ e.at \in Int /\ e.confidence = Confidence(e.at, inc)
            /\ f.at \in Int /\ f.confidence = Confidence(f.at, inc)
        BY <2>1, <2>4 DEF Fits
      <3>2. Confidence(e.at, inc) <= Confidence(f.at, inc)
        BY <2>2, <2>4, <3>1, NearerWeighsMore
      <3>. QED  BY <3>1, <3>2
    <2>. QED  BY <2>3, <2>4 DEF EvidenceInWindow
  <1>. QED  BY <1>1, LiveAlways, PTL

\* A merge inside the window is reported under its number, or missing from a
\* full page of other pull requests that were all touched since.
THEOREM LiveNoMergeMissed == Spec => []NoMergeMissed
  <1>1. LiveInv => NoMergeMissed
    <2>. SUFFICES ASSUME LiveInv, who = "deploys", NEW h \in heard,
                         NEW p \in DOMAIN world[h[1]][1],
                         LET merged == world[h[1]][1][p].merged
                         IN  /\ merged # NoTime
                             /\ inc.triggeredAt - inc.window <= merged
                             /\ merged <= inc.triggeredAt
                  PROVE  \/ \E e \in ToSet(h[2]) :
                               /\ e.data["number"] = world[h[1]][1][p].number
                               /\ e.at = world[h[1]][1][p].merged
                         \/ Cardinality({j \in DOMAIN world[h[1]][1] \ {p} :
                               world[h[1]][1][j].updated >= world[h[1]][1][p].merged}) >= PerPage
      BY DEF NoMergeMissed
    <2>1. PICK k, closed, e, src : /\ k = h[1] /\ closed = world[k][1]
                                   /\ e = found[k][1] /\ src = Sources[k]
      OBVIOUS
    <2>2. Called /\ k \in DOMAIN world /\ h[2] = FlattenSeq(found[k])
      BY <2>1 DEF LiveInv
    <2>3. /\ world[k] \in Answers["deploys"] /\ DOMAIN world[k] = 1..2
          /\ Len(found[k]) = 2 /\ DOMAIN found[k] = 1..2
          /\ e = EvidenceIn(src, 1, closed)
      <3>1. Len(world[k]) = 2 /\ world[k] \in Answers[who]
        BY <2>2, Replies
      <3>2. /\ DOMAIN world[k] = 1..Len(world[k]) /\ DOMAIN found[k] = 1..Len(world[k])
            /\ Len(found[k]) = Len(world[k])
        BY <2>2, Replies
      <3>3. 1 \in DOMAIN world[k]
        BY <3>1, <3>2
      <3>4. found[k][1] = EvidenceIn(Sources[k], 1, world[k][1])
        BY <2>2, <3>3, Replies
      <3>. QED  BY <2>1, <3>1, <3>2, <3>4
    <2>4. /\ IsList(closed)
          /\ \A j \in DOMAIN closed :
                /\ closed[j].updated \in Int /\ closed[j].merged \in SomeTime
                /\ closed[j].merged # NoTime => closed[j].merged <= closed[j].updated
      BY <2>1, <2>3, DeploysAssumption
    <2>5. e = PullRequestEvidence(src, closed, inc)
      BY <2>3 DEF EvidenceIn
    <2>6. PICK merged \in Int : /\ merged = closed[p].merged /\ merged <= closed[p].updated
                                /\ InWindow(merged, inc) /\ p \in DOMAIN closed
      BY <2>1, <2>4 DEF InWindow, Start, End, SomeTime
    <2>7. CASE \E j \in DOMAIN e :
                  e[j] = MergedPR(src, closed[p].number, closed[p].merged,
                                  Confidence(closed[p].merged, inc))
      <3>1. PICK j \in DOMAIN e : e[j].at = merged /\ e[j].data["number"] = closed[p].number
        BY <2>6, <2>7 DEF MergedPR, Evidence, NoKeys
      <3>2. PICK first, rest, both : first = e /\ rest = found[k][2] /\ both = h[2]
        OBVIOUS
      <3>3. IsList(first) /\ IsList(rest)
        <4>1. 1 \in DOMAIN world[k] /\ 2 \in DOMAIN world[k]
          BY <2>3
        <4>. QED  BY <2>1, <2>2, <3>2, <4>1, EvidenceFits
      <3>4. both = first \o rest
        BY <2>1, <2>2, <2>3, <3>2, FlattenTwo
      <3>5. ToSet(both) = ToSet(first) \cup ToSet(rest)
        BY ONLY <3>3, <3>4, JoinedList
      <3>6. e[j] \in ToSet(h[2])
        BY <3>1, <3>2, <3>5 DEF ToSet
      <3>. QED  BY <2>1, <2>6, <3>1, <3>6
    <2>8. CASE \E f \in [1..PerPage -> DOMAIN closed] :
                  /\ \A j, m \in 1..PerPage : j # m => f[j] # f[m]
                  /\ \A m \in 1..PerPage :
                        f[m] # p /\ closed[p].updated <= closed[f[m]].updated
      <3>1. PICK f \in [1..PerPage -> DOMAIN closed] :
                  /\ \A j, m \in 1..PerPage : j # m => f[j] # f[m]
                  /\ \A m \in 1..PerPage :
                        f[m] # p /\ closed[p].updated <= closed[f[m]].updated
        BY <2>8
      <3>2. PICK T : T = {j \in DOMAIN closed \ {p} : closed[j].updated >= merged}
        OBVIOUS
      <3>3. f \in [1..PerPage -> T]
        <4>1. ASSUME NEW m \in 1..PerPage
              PROVE  f[m] \in T
          <5>1. PICK j \in DOMAIN closed : j = f[m]
            BY <3>1
          <5>2. j # p /\ closed[p].updated <= closed[j].updated
            BY <3>1, <5>1
          <5>3. closed[p].updated \in Int /\ closed[j].updated \in Int
            BY <2>4, <2>6
          <5>. QED  BY <2>6, <3>2, <5>1, <5>2, <5>3
        <4>. QED  BY <3>1, <4>1
      <3>4. IsFiniteSet(T)
        <4>1. T \in SUBSET (DOMAIN closed)
          BY <3>2
        <4>2. IsFiniteSet(DOMAIN closed)
          BY <2>4, ListShape, FirstNumbers
        <4>. QED  BY <4>1, <4>2, FS_Subset
      <3>5. Cardinality(T) >= PerPage
        <4>1. PerPage \in Nat /\ \A j, m \in 1..PerPage : j # m => f[j] # f[m]
          BY <3>1, PerPageAssumption
        <4>. QED  BY <3>3, <3>4, <4>1, AtLeastSoMany
      <3>. QED  BY <2>1, <2>6, <3>2, <3>5
    <2>. QED  BY <2>4, <2>5, <2>6, <2>7, <2>8, PullRequestsReported
  <1>. QED  BY <1>1, LiveAlways, PTL

\* Of a query's series and a namespace's streams, at most three are reported,
\* and the loudest.
THEOREM LiveLoudestKept == Spec => []LoudestKept
  <1>1. LiveInv => LoudestKept
    <2>. SUFFICES ASSUME LiveInv, who \in {"prometheus", "logs"}, NEW h \in heard
                  PROVE  LET heardOf == Reportable(world[h[1]][1])
                         IN  /\ Len(h[2]) = Min({3, Len(heardOf)})
                             /\ \E of \in [DOMAIN h[2] -> DOMAIN heardOf] :
                                   /\ \A j, k \in DOMAIN h[2] : j # k => of[j] # of[k]
                                   /\ \A k \in DOMAIN h[2] : h[2][k].labels = heardOf[of[k]].labels
                                   /\ \A j \in DOMAIN heardOf, k \in DOMAIN h[2] :
                                         (\A i \in DOMAIN h[2] : of[i] # j)
                                         => Level(heardOf[j]) <= Level(heardOf[of[k]])
      BY DEF LoudestKept
    <2>1. PICK k, reply, e, src : /\ k = h[1] /\ reply = world[k][1]
                                  /\ e = found[k][1] /\ src = Sources[k]
      OBVIOUS
    <2>2. PICK all : all = Reportable(reply)
      OBVIOUS
    <2>3. Called /\ k \in DOMAIN world /\ h[2] = FlattenSeq(found[k])
      BY <2>1 DEF LiveInv
    <2>4. world[k] \in Answers[who] /\ h[2] = e /\ e = EvidenceIn(src, 1, reply)
      <3>1. Len(world[k]) \in {1, 2} /\ ~(Len(world[k]) = 2) /\ world[k] \in Answers[who]
        <4>1. who \notin {"deploys", "kubernetes"}
          OBVIOUS
        <4>2. (who \in {"deploys", "kubernetes"} <=> Len(world[k]) = 2)
          BY <2>3, Replies
        <4>3. Len(world[k]) \in {1, 2} /\ world[k] \in Answers[who]
          BY <2>3, Replies
        <4>. QED  BY <4>1, <4>2, <4>3
      <3>2. /\ DOMAIN world[k] = 1..Len(world[k])
            /\ Len(found[k]) = Len(world[k])
        BY <2>3, Replies
      <3>3. Len(found[k]) = 1 /\ 1 \in DOMAIN world[k]
        <4>1. Len(world[k]) = 1
          BY ONLY <3>1
        <4>. QED  BY <3>2, <4>1
      <3>4. found[k][1] = EvidenceIn(Sources[k], 1, world[k][1])
        BY <2>3, <3>3, Replies
      <3>5. FlattenSeq(found[k]) = found[k][1]
        BY <3>3, FlattenOne
      <3>. QED  BY <2>1, <2>3, <3>1, <3>4, <3>5
    <2>5. PICK level : level = [j \in DOMAIN all |-> Level(all[j])]
      OBVIOUS
    <2>6. Loudest(e, all, level)
      <3>1. CASE who = "prometheus"
        <4>1. /\ IsList(reply)
              /\ \A p \in DOMAIN reply :
                    /\ DOMAIN reply[p] = {"labels", "samples"} /\ IsList(reply[p].samples)
                    /\ \A x \in ToSet(reply[p].samples) : x.v \in Int \cup {NoValue}
          BY <2>1, <2>4, <3>1, PrometheusAssumption
        <4>2. all = Usable(reply)
          BY <2>2, <3>1 DEF Reportable
        <4>3. IsList(all) /\ \A p \in DOMAIN all : Peak(all[p]) \in Int
          BY <4>1, <4>2, UsableHavePeaks
        <4>4. e = SeriesEvidence(reply)
          BY <2>4, <3>1 DEF EvidenceIn
        <4>5. level = [j \in DOMAIN all |-> Peak(all[j])]
          <5>1. ASSUME NEW s
                PROVE  Level(s) = Peak(s)
            <6>1. {x.v : x \in ToSet(s.samples)} = {s.samples[j].v : j \in DOMAIN s.samples}
              BY DEF ToSet
            <6>. QED  BY <3>1, <6>1 DEF Level, Peak
          <5>. QED  BY <2>5, <5>1
        <4>. QED  BY <4>2, <4>3, <4>4, <4>5, SeriesReported
      <3>2. CASE who = "logs"
        <4>1. IsList(reply) /\ \A p \in DOMAIN reply : reply[p].count \in Nat
          BY <2>1, <2>4, <3>2, LogsAssumption
        <4>2. all = Selected(reply, LAMBDA s : s.count > 0)
          BY <2>2, <3>2 DEF Reportable
        <4>3. e = StreamEvidence(src, reply)
          BY <2>4, <3>2 DEF EvidenceIn
        <4>4. level = [j \in DOMAIN all |-> all[j].count]
          BY <2>5, <3>2 DEF Level
        <4>. QED  BY <4>1, <4>2, <4>3, <4>4, StreamsReported
      <3>. QED  BY <3>1, <3>2
    <2>7. PICK of \in [DOMAIN e -> DOMAIN all] :
             /\ \A j, i \in DOMAIN e : j # i => of[j] # of[i]
             /\ \A i \in DOMAIN e : e[i].labels = all[of[i]].labels
             /\ \A j \in DOMAIN all, i \in DOMAIN e :
                   (\A m \in DOMAIN e : of[m] # j) => level[j] <= level[of[i]]
      BY <2>6 DEF Loudest
    <2>8. \A j \in DOMAIN all, i \in DOMAIN e :
             (\A m \in DOMAIN e : of[m] # j) => Level(all[j]) <= Level(all[of[i]])
      <3>1. \A j \in DOMAIN all : level[j] = Level(all[j])
        BY <2>5
      <3>. QED  BY <2>7, <3>1
    <2>9. Len(e) = Min({3, Len(all)})
      BY <2>6 DEF Loudest
    <2>10. h[2] = e /\ all = Reportable(world[h[1]][1])
      BY <2>1, <2>2, <2>4
    <2>. QED  BY <2>7, <2>8, <2>9, <2>10
  <1>. QED  BY <1>1, LiveAlways, PTL

-----------------------------------------------------------------------------

\* Every source in turn contributes all it has, or nothing.
THEOREM LiveMeetsSweep == Spec => MeetsSweep
  <1>. DEFINE whole == [k \in DOMAIN found |-> FlattenSeq(found[k])]
  <1>1. Init => Sweep!Init
    BY DEF Init, Sweep!Init
  <1>2. LiveInv /\ [Next]_vars => [Sweep!Next]_Sweep!vars
    <2>. SUFFICES ASSUME LiveInv, [Next]_vars
                  PROVE  [Sweep!Next]_Sweep!vars
      OBVIOUS
    <2>1. UNCHANGED call
      BY DEF Next, vars, call, AnswerPart, AnswerLast, Fail, Return, Cancel
    <2>2. found' = found /\ whole' = whole
      BY <2>1 DEF call
    <2>3. Len(whole) = Len(world) /\ \A k \in DOMAIN world : whole[k] = FlattenSeq(found[k])
      <3>1. Called
        BY DEF LiveInv
      <3>2. Len(world) \in Nat /\ DOMAIN found = 1..Len(world)
        BY <3>1, WorldIsListed
      <3>. QED  BY <3>1, <3>2, WorldIsListed
    <2>. HIDE DEF whole
    <2>4. CASE AnswerLast
      <3>1. turn <= Len(world) /\ out' = out \o (part \o found[turn][asked + 1]) /\ turn' = turn + 1
        BY <2>4 DEF AnswerLast, Asking, NextSource
      <3>2. /\ turn \in DOMAIN world
            /\ part \o found[turn][asked + 1] = FlattenSeq(found[turn])
        BY <2>4, <3>1, LastCompletes DEF AnswerLast
      <3>3. turn <= Len(whole) /\ out' = out \o whole[turn]
        BY <2>3, <3>1, <3>2
      <3>. QED  BY <2>2, <3>1, <3>3 DEF Sweep!Next, Sweep!Contribute, whole
    <2>5. CASE Fail
      <3>1. turn <= Len(whole) /\ turn' = turn + 1 /\ out' = out
        BY <2>3, <2>5 DEF Fail, Asking, NextSource
      <3>. QED  BY <2>2, <3>1 DEF Sweep!Next, Sweep!Drop, whole
    <2>6. CASE UNCHANGED <<turn, out>>
      BY <2>2, <2>6 DEF Sweep!vars, whole
    <2>. QED  BY <2>4, <2>5, <2>6 DEF Next, vars, AnswerPart, Return, Cancel
  <1>. QED  BY <1>1, <1>2, LiveAlways, PTL DEF Spec, MeetsSweep, Sweep!Spec

-----------------------------------------------------------------------------
(* The correlating ranker. *)

\* order lists the members of T, each once.
Lists(order, T) ==
    /\ order \in Seq(T)
    /\ \A t \in T : \E k \in DOMAIN order : order[k] = t
    /\ \A j, k \in DOMAIN order : j < k => order[j] # order[k]

\* It is one of SetToSeqs' listings, and all those of a finite set are such.
LEMMA ListsEach ==
  ASSUME NEW T, NEW order, Lists(order, T)
  PROVE  /\ IsFiniteSet(T) /\ Cardinality(T) = Len(order) /\ Len(order) \in Nat
         /\ DOMAIN order = 1..Len(order)
         /\ order \in SetToSeqs(T)
  <1>1. /\ Len(order) \in Nat /\ order \in [1..Len(order) -> T]
        /\ DOMAIN order = 1..Len(order)
    BY DEF Lists
  <1>2. IsFiniteSet(T) /\ Cardinality(T) = Len(order)
    BY <1>1, ListedOnce DEF Lists
  <1>3. \A j, k \in 1..Len(order) : j # k => order[j] # order[k]
    <2>1. \A j, k \in 1..Len(order) : j # k => j < k \/ k < j
      BY <1>1
    <2>. QED  BY <1>1, <2>1 DEF Lists
  <1>. QED  BY <1>1, <1>2, <1>3 DEF SetToSeqs

LEMMA SetToSeqsLists ==
  ASSUME NEW T, IsFiniteSet(T), NEW order \in SetToSeqs(T)
  PROVE  Lists(order, T)
  <1>. DEFINE n == Cardinality(T)
  <1>1. n \in Nat /\ IsFiniteSet(1..n) /\ Cardinality(1..n) = n
    BY FS_CardinalityType, FirstNumbers
  <1>2. order \in [1..n -> T] /\ \A j, k \in 1..n : j # k => order[j] # order[k]
    BY DEF SetToSeqs
  <1>3. order \in Injection(1..n, T)
    BY <1>2 DEF Injection, IsInjective
  <1>4. order \in Surjection(1..n, T)
    <2>. HIDE DEF n
    <2>1. Cardinality(T) = n
      BY DEF n
    <2>. QED  BY <1>1, <1>3, <2>1, FS_Injection
  <1>5. DOMAIN order = 1..n /\ order \in Seq(T)
    BY <1>1, <1>2
  <1>. QED  BY <1>1, <1>2, <1>4, <1>5 DEF Lists, Surjection

-----------------------------------------------------------------------------
(* One hypothesis. *)

Evid == {ev[k] : k \in DOMAIN ev}
Places(key) == {k \in DOMAIN ev : BucketKey(ev[k]) = key}
EarlierPairs == {p \in Evid \X Evid : p[1].at < p[2].at}

LEMMA EvidenceType ==
  ASSUME ev \in Inputs
  PROVE  /\ ev \in Seq(Evid) /\ Len(ev) \in Nat /\ DOMAIN ev = 1..Len(ev)
         /\ \A k \in DOMAIN ev : ev[k].at \in Int /\ ev[k].confidence \in 0..100
         /\ StrictWeakOrder(EarlierPairs, Evid)
         /\ \A key : /\ Places(key) \in SUBSET (DOMAIN ev) /\ Places(key) \in SUBSET Nat
                     /\ IsFiniteSet(Places(key)) /\ Cardinality(Places(key)) \in Nat
  <1>1. ev \in Seq(Evid) /\ \A k \in DOMAIN ev : ev[k].at \in Int /\ ev[k].confidence \in 0..100
    BY InputsAssumption DEF Evid
  <1>2. Len(ev) \in Nat /\ DOMAIN ev = 1..Len(ev)
    BY <1>1
  <1>3. StrictWeakOrder(EarlierPairs, Evid)
    <2>1. \A e \in Evid : e.at \in Int
      BY <1>1 DEF Evid
    <2>2. \A e, f \in Evid : <<e, f>> \in EarlierPairs <=> e.at < f.at
      BY DEF EarlierPairs
    <2>3. \A e, f \in Evid : <<e, f>> \in EarlierPairs => <<f, e>> \notin EarlierPairs
      BY <2>1, <2>2
    <2>4. \A e, f, g \in Evid : <<e, g>> \in EarlierPairs
                                  => <<e, f>> \in EarlierPairs \/ <<f, g>> \in EarlierPairs
      BY <2>1, <2>2
    <2>. QED  BY <2>3, <2>4 DEF StrictWeakOrder
  <1>4. ASSUME NEW key
        PROVE  /\ Places(key) \in SUBSET (DOMAIN ev) /\ Places(key) \in SUBSET Nat
               /\ IsFiniteSet(Places(key)) /\ Cardinality(Places(key)) \in Nat
    <2>1. Places(key) \in SUBSET (1..Len(ev)) /\ Places(key) \in SUBSET Nat
      BY <1>2 DEF Places
    <2>2. IsFiniteSet(1..Len(ev))
      BY <1>2, FirstNumbers
    <2>. QED  BY <1>2, <2>1, <2>2, FS_Subset, FS_CardinalityType
  <1>. QED  BY <1>1, <1>2, <1>3, <1>4

\* The places of a bucket, each once.
Covers(order, key) ==
    /\ order \in [1..Cardinality(Places(key)) -> Places(key)]
    /\ \A p \in Places(key) : \E k \in 1..Cardinality(Places(key)) : order[k] = p
    /\ \A j, k \in 1..Cardinality(Places(key)) : j < k => order[j] # order[k]

\* A bucket, and what its hypothesis shows of it, are its items, each once.
LEMMA GroupCovers ==
  ASSUME ev \in Inputs, NEW key
  PROVE  \E order : Covers(order, key) /\ Group(key) = Along(ev, order, Places(key))
  <1>1. Group(key) = Picked(ev, Places(key), {})
    BY DEF Group, Selected, Places
  <1>2. Places(key) \in SUBSET Nat /\ IsFiniteSet(Places(key))
    BY EvidenceType
  <1>3. PICK order : /\ Enumerates(order, Places(key), {})
                     /\ Picked(ev, Places(key), {}) = Along(ev, order, Places(key))
    BY <1>2, NoOrderIsStrictWeak, PickedInOrder
  <1>. QED  BY <1>1, <1>3 DEF Enumerates, Covers

LEMMA HypothesisCovers ==
  ASSUME ev \in Inputs, NEW key
  PROVE  \E order : /\ Covers(order, key)
                    /\ SliceStable(Group(key), Earlier) = Along(ev, order, Places(key))
  <1>1. Group(key) = Picked(ev, Places(key), {})
    BY DEF Group, Selected, Places
  <1>2. /\ ev \in Seq(Evid) /\ StrictWeakOrder(EarlierPairs, Evid)
        /\ Places(key) \in SUBSET (DOMAIN ev)
    BY EvidenceType
  <1>. DEFINE h == Group(key)
  <1>3. SliceStable(h, Earlier) = Picked(h, DOMAIN h, Pairs(h, EarlierPairs))
    <2>1. h \in Seq(Evid)
      <3>1. PICK order : Covers(order, key) /\ h = Along(ev, order, Places(key))
        BY GroupCovers
      <3>2. Cardinality(Places(key)) \in Nat
        BY EvidenceType
      <3>3. \A k \in 1..Cardinality(Places(key)) : ev[order[k]] \in Evid
        BY <1>2, <3>1 DEF Covers, Evid
      <3>. QED  BY <3>1, <3>2, <3>3 DEF Along
    <2>2. \A k \in DOMAIN h : h[k] \in Evid
      BY <2>1
    <2>. HIDE DEF h
    <2>3. {p \in (DOMAIN h) \X (DOMAIN h) : Earlier(h[p[1]], h[p[2]])} = Pairs(h, EarlierPairs)
      BY <2>2 DEF Earlier, Pairs, EarlierPairs
    <2>. QED  BY <2>3 DEF SliceStable
  <1>4. PICK order : /\ Enumerates(order, Places(key), Pairs(ev, EarlierPairs))
                     /\ Picked(h, DOMAIN h, Pairs(h, EarlierPairs)) = Along(ev, order, Places(key))
    <2>. HIDE DEF h
    <2>1. h = Picked(ev, Places(key), {})
      BY <1>1 DEF h
    <2>. QED  BY <1>2, <2>1, FilteredThenSorted
  <1>. QED  BY <1>3, <1>4 DEF Enumerates, Covers

\* A bucket has something in it, so that it has a best signal.
LEMMA GreatestPercent ==
  ASSUME NEW T \in SUBSET (0..100), T # {}
  PROVE  Max(T) \in T /\ Max(T) \in 0..100
  <1>1. T \in SUBSET Nat /\ IsFiniteSet(T)
    <2>1. 0..100 \in SUBSET Nat
      OBVIOUS
    <2>2. \A j, k \in Int : IsFiniteSet(j..k)
      BY FS_Interval
    <2>3. IsFiniteSet(0..100)
      <3>1. PICK j \in Int : j = 0
        OBVIOUS
      <3>2. PICK k \in Int : k = 100
        OBVIOUS
      <3>. QED  BY <2>2, <3>1, <3>2
    <2>. QED  BY <2>1, <2>3, FS_Subset
  <1>2. \E k \in T : \A j \in T : k >= j
    <2>1. \E k \in T : \A j \in T : j <= k
      BY <1>1, GreatestPlace
    <2>. QED  BY <1>1, <2>1
  <1>3. Max(T) \in T
    BY <1>2 DEF Max
  <1>. QED  BY <1>3

LEMMA KeysArePlaced ==
  /\ \A key \in Keys : key # Orphan /\ Places(key) # {}
  /\ \A k \in DOMAIN ev : BucketKey(ev[k]) # Orphan => BucketKey(ev[k]) \in Keys
  BY DEF Keys, Places

Confidences(group) == {group[k].confidence : k \in DOMAIN group}
Raised(group) == Max(Confidences(group)) * Boost(Cardinality(UniqueSources(group)))

\* A score is a matter of the sets of confidences and of sources alone.
LEMMA ScoresBySets ==
  /\ \A key, group :
        HypothesisForGroup(key, group).score = IF Raised(group) > 1000 THEN 1000 ELSE Raised(group)
  /\ \A h : h.key # Orphan => FairScore(h) = Min({1000, Raised(h.evidence)})
  /\ \A h : h.key = Orphan => FairScore(h) = 10 * Max(Confidences(h.evidence))
  <1>1. \A key, group :
           HypothesisForGroup(key, group).score
             = IF Raised(group) > 1000 THEN 1000 ELSE Raised(group)
    BY DEF HypothesisForGroup, Raised, Confidences
  <1>2. \A h : h.key # Orphan => FairScore(h) = Min({1000, Raised(h.evidence)})
    BY DEF FairScore, Raised, Boost, UniqueSources, Confidences
  <1>3. \A h : h.key = Orphan => FairScore(h) = 10 * Max(Confidences(h.evidence))
    BY DEF FairScore, Confidences
  <1>. QED  BY <1>1, <1>2, <1>3

LEMMA RaisedIsWhole ==
  ASSUME NEW group, Confidences(group) \in SUBSET (0..100), Confidences(group) # {}
  PROVE  /\ Raised(group) \in Nat
         /\ Min({1000, Raised(group)}) = IF Raised(group) > 1000 THEN 1000 ELSE Raised(group)
  <1>1. PICK best \in 0..100 : best = Max(Confidences(group))
    BY GreatestPercent
  <1>2. PICK times \in {10, 12, 14} : times = Boost(Cardinality(UniqueSources(group)))
    BY DEF Boost
  <1>3. Raised(group) = best * times
    BY <1>1, <1>2 DEF Raised
  <1>4. best * times \in Nat
    OBVIOUS
  <1>5. Raised(group) \in Nat
    BY <1>3, <1>4
  <1>. QED  BY <1>5 DEF Min

Fair(h) == h.score \in 0..1000 /\ h.score = FairScore(h)

LEMMA FairIsWhole == \A h : Fair(h) => h.score \in Int /\ h.score = FairScore(h)
  BY DEF Fair

\* So it scores what its evidence says it must.
LEMMA HypothesisIsFair ==
  ASSUME ev \in Inputs, NEW key \in Keys
  PROVE  LET h == HypothesisForGroup(key, Group(key))
         IN  h.key = key /\ Fair(h)
  <1>1. PICK group : group = Group(key)
    OBVIOUS
  <1>2. PICK h : h = HypothesisForGroup(key, group)
    OBVIOUS
  <1>3. h.key = key /\ h.evidence = SliceStable(group, Earlier)
    BY <1>2 DEF HypothesisForGroup
  <1>4. PICK o : Covers(o, key) /\ group = Along(ev, o, Places(key))
    BY <1>1, GroupCovers
  <1>5. PICK q : Covers(q, key) /\ h.evidence = Along(ev, q, Places(key))
    BY <1>1, <1>3, HypothesisCovers
  <1>6. Confidences(group) = {ev[p].confidence : p \in Places(key)}
    BY <1>4 DEF Covers, Along, Confidences
  <1>7. Confidences(h.evidence) = {ev[p].confidence : p \in Places(key)}
    BY <1>5 DEF Covers, Along, Confidences
  <1>8. UniqueSources(group) = {ev[p].source : p \in Places(key)}
    BY <1>4 DEF Covers, Along, UniqueSources
  <1>9. UniqueSources(h.evidence) = {ev[p].source : p \in Places(key)}
    BY <1>5 DEF Covers, Along, UniqueSources
  <1>10. Raised(group) = Raised(h.evidence)
    <2>1. Confidences(group) = Confidences(h.evidence)
      BY <1>6, <1>7
    <2>2. UniqueSources(group) = UniqueSources(h.evidence)
      BY <1>8, <1>9
    <2>. QED  BY <2>1, <2>2 DEF Raised
  <1>11. Confidences(group) \in SUBSET (0..100) /\ Confidences(group) # {}
    <2>1. /\ {ev[p].confidence : p \in Places(key)} \in SUBSET (0..100)
          /\ {ev[p].confidence : p \in Places(key)} # {}
      BY EvidenceType, KeysArePlaced
    <2>. QED  BY <1>6, <2>1
  <1>12. PICK raw \in Nat :
            /\ raw = Raised(group)
            /\ Min({1000, raw}) = IF raw > 1000 THEN 1000 ELSE raw
    <2>1. /\ Raised(group) \in Nat
          /\ Min({1000, Raised(group)}) = IF Raised(group) > 1000 THEN 1000 ELSE Raised(group)
      BY <1>11, RaisedIsWhole
    <2>. QED  BY ONLY <2>1
  <1>13. h.score = IF raw > 1000 THEN 1000 ELSE raw
    BY <1>2, <1>12, ScoresBySets
  <1>14. FairScore(h) = Min({1000, raw})
    BY <1>3, <1>10, <1>12, KeysArePlaced, ScoresBySets
  <1>15. h.score \in 0..1000
    BY <1>13
  <1>. QED  BY <1>1, <1>2, <1>3, <1>12, <1>13, <1>14, <1>15 DEF Fair

LEMMA OrphanIsFair ==
  ASSUME NEW e, e.confidence \in 0..100
  PROVE  LET h == HypothesisForOrphan(e)
         IN  h.key = Orphan /\ Fair(h)
  <1>1. PICK h : h = HypothesisForOrphan(e)
    OBVIOUS
  <1>2. h.key = Orphan /\ h.score = 10 * e.confidence /\ h.evidence = <<e>>
    BY <1>1 DEF HypothesisForOrphan
  <1>3. Confidences(<<e>>) = {e.confidence}
    BY DEF Confidences
  <1>4. Max({e.confidence}) = e.confidence
    BY DEF Max
  <1>5. FairScore(h) = 10 * e.confidence
    BY <1>2, <1>3, <1>4, ScoresBySets
  <1>. QED  BY <1>1, <1>2, <1>5 DEF Fair

-----------------------------------------------------------------------------
(* The ranking of one listing of the buckets. *)

Lone == [k \in DOMAIN Group(Orphan) |-> HypothesisForOrphan(Group(Orphan)[k])]
Visited(order) == [k \in DOMAIN order |-> HypothesisForGroup(order[k], Group(order[k]))]
AllOf(order) == Visited(order) \o Lone
Ranked(order) == Capped(SliceStable(AllOf(order), HigherScore))

LEMMA LoneOrphans ==
  ASSUME ev \in Inputs
  PROVE  /\ Len(Lone) = Len(Group(Orphan)) /\ Len(Lone) = Cardinality(Places(Orphan))
         /\ Len(Lone) \in Nat /\ DOMAIN Lone = 1..Len(Lone)
         /\ \E order : /\ Covers(order, Orphan)
                       /\ Lone = [k \in 1..Len(Lone) |-> HypothesisForOrphan(ev[order[k]])]
         /\ \A S : (\A k \in DOMAIN Lone : Lone[k] \in S) => Lone \in Seq(S)
  <1>. DEFINE n == Cardinality(Places(Orphan))
              g == Group(Orphan)
  <1>1. PICK order : Covers(order, Orphan) /\ g = Along(ev, order, Places(Orphan))
    BY GroupCovers
  <1>2. n \in Nat
    BY EvidenceType
  <1>3. DOMAIN g = 1..n /\ \A k \in 1..n : g[k] = ev[order[k]]
    BY <1>1 DEF Along
  <1>. HIDE DEF n
  <1>4. Len(g) = n
    <2>1. g = [k \in 1..n |-> ev[order[k]]]
      BY <1>1 DEF Along, n
    <2>. QED  BY <1>2, <2>1
  <1>5. Lone = [k \in 1..n |-> HypothesisForOrphan(ev[order[k]])]
    <2>1. Lone = [k \in DOMAIN g |-> HypothesisForOrphan(g[k])]
      BY DEF Lone
    <2>. HIDE DEF g
    <2>. QED  BY <1>3, <2>1
  <1>6. Len(Lone) = n /\ DOMAIN Lone = 1..n
    BY <1>2, <1>5
  <1>7. ASSUME NEW S, \A k \in DOMAIN Lone : Lone[k] \in S PROVE Lone \in Seq(S)
    BY <1>2, <1>5, <1>7
  <1>. QED  BY <1>1, <1>2, <1>4, <1>5, <1>6, <1>7 DEF n

\* One hypothesis for each bucket and each orphan, all of them fair.
LEMMA AllAreFair ==
  ASSUME ev \in Inputs, NEW order, Lists(order, Keys)
  PROVE  LET all == AllOf(order)
         IN  /\ HypothesisCount \in Nat /\ Len(all) = HypothesisCount
             /\ DOMAIN all = 1..HypothesisCount
             /\ \A k \in 1..HypothesisCount :
                   Fair(all[k])
             /\ \A k \in 1..Len(order) :
                   /\ k \in 1..HypothesisCount
                   /\ all[k] = HypothesisForGroup(order[k], Group(order[k]))
             /\ \A k \in 1..Len(Lone) :
                   /\ Len(order) + k \in 1..HypothesisCount
                   /\ all[Len(order) + k] = Lone[k]
  <1>. DEFINE m == Len(order)
              n == Len(Lone)
              v == Visited(order)
              w == Lone
              S == {v[k] : k \in 1..m} \cup {w[k] : k \in 1..n}
  <1>1. m \in Nat /\ Cardinality(Keys) = m /\ DOMAIN order = 1..m
        /\ \A k \in 1..m : order[k] \in Keys
    BY ListsEach DEF Lists
  <1>2. n \in Nat /\ DOMAIN w = 1..n /\ HypothesisCount = m + n
    BY <1>1, LoneOrphans DEF HypothesisCount
  <1>3. v = [k \in 1..m |-> HypothesisForGroup(order[k], Group(order[k]))]
    BY <1>1 DEF Visited
  <1>4. \A k \in 1..m : Fair(v[k]) /\ v[k] = HypothesisForGroup(order[k], Group(order[k]))
    <2>. SUFFICES ASSUME NEW k \in 1..m PROVE Fair(HypothesisForGroup(order[k], Group(order[k])))
      BY <1>3
    <2>. QED  BY <1>1, HypothesisIsFair
  <1>5. \A k \in 1..n : Fair(w[k])
    <2>. SUFFICES ASSUME NEW k \in 1..n PROVE Fair(w[k])
      OBVIOUS
    <2>1. PICK o : /\ Covers(o, Orphan)
                   /\ Lone = [i \in 1..Len(Lone) |-> HypothesisForOrphan(ev[o[i]])]
      BY LoneOrphans
    <2>2. ev[o[k]].confidence \in 0..100
      BY <2>1, LoneOrphans, EvidenceType DEF Covers
    <2>3. w[k] = HypothesisForOrphan(ev[o[k]])
      BY <2>1
    <2>4. Fair(HypothesisForOrphan(ev[o[k]]))
      BY <2>2, OrphanIsFair
    <2>. QED  BY <2>3, <2>4
  <1>6. v \in Seq(S) /\ Len(v) = m
    <2>1. v \in [1..m -> S]
      BY <1>3
    <2>. QED  BY <1>1, <1>3, <2>1
  <1>7. w \in Seq(S)
    <2>1. \A k \in DOMAIN Lone : Lone[k] \in S
      BY <1>2
    <2>. HIDE DEF S
    <2>. QED  BY <2>1, LoneOrphans
  <1>. HIDE DEF m, n, v, w, S
  <1>8. Len(w) = n
    BY DEF w, n
  <1>9. /\ v \o w \in Seq(S) /\ Len(v \o w) = m + n
        /\ \A k \in 1..(m + n) : (v \o w)[k] = IF k <= m THEN v[k] ELSE w[k - m]
    BY <1>1, <1>2, <1>6, <1>7, <1>8
  <1>10. AllOf(order) = v \o w
    BY DEF AllOf, v, w
  <1>11. DOMAIN (v \o w) = 1..(m + n)
    BY <1>9
  <1>12. \A k \in 1..(m + n) : Fair((v \o w)[k])
    <2>. SUFFICES ASSUME NEW k \in 1..(m + n) PROVE Fair((v \o w)[k])
      OBVIOUS
    <2>1. k <= m => k \in 1..m
      BY <1>1, <1>2
    <2>2. ~(k <= m) => k - m \in 1..n
      BY <1>1, <1>2
    <2>. QED  BY <1>4, <1>5, <1>9, <2>1, <2>2
  <1>13. \A k \in 1..m : k \in 1..(m + n) /\ (v \o w)[k] = v[k]
    BY <1>1, <1>2, <1>9
  <1>14. \A k \in 1..n : m + k \in 1..(m + n) /\ (v \o w)[m + k] = w[k]
    BY <1>1, <1>2, <1>9
  <1>15. HypothesisCount \in Nat /\ Len(v \o w) = HypothesisCount
    BY <1>1, <1>2, <1>9
  <1>16. \A k \in 1..m : v[k] = HypothesisForGroup(order[k], Group(order[k]))
    BY <1>4
  <1>17. DOMAIN AllOf(order) = 1..HypothesisCount /\ Len(AllOf(order)) = HypothesisCount
    BY <1>2, <1>10, <1>11, <1>15
  <1>18. \A k \in 1..HypothesisCount : Fair(AllOf(order)[k])
    BY <1>2, <1>10, <1>12
  <1>19. \A k \in 1..m : /\ k \in 1..HypothesisCount
                         /\ AllOf(order)[k] = HypothesisForGroup(order[k], Group(order[k]))
    BY <1>2, <1>10, <1>13, <1>16
  <1>20. \A k \in 1..n : m + k \in 1..HypothesisCount /\ AllOf(order)[m + k] = w[k]
    BY <1>2, <1>10, <1>14
  <1>. QED  BY <1>15, <1>17, <1>18, <1>19, <1>20 DEF m, n, w

\* Each of them is the hypothesis of one making, and each making has one.
MadeOf(tag, all, n) ==
    /\ tag \in [1..n -> Makings]
    /\ \A j, k \in 1..n : tag[j] = tag[k] => j = k
    /\ \A t \in Makings : \E k \in 1..n : tag[k] = t
    /\ \A k \in 1..n : all[k] = Hypothesis(tag[k])

LEMMA AllAreMade ==
  ASSUME ev \in Inputs, NEW order, Lists(order, Keys)
  PROVE  \E tag : MadeOf(tag, AllOf(order), HypothesisCount)
  <1>1. PICK n : n = HypothesisCount
    OBVIOUS
  <1>2. PICK all : all = AllOf(order)
    OBVIOUS
  <1>3. PICK m : m = Len(order)
    OBVIOUS
  <1>4. PICK o : o = Len(Lone)
    OBVIOUS
  <1>5. /\ m \in Nat /\ o \in Nat /\ n = m + o
        /\ \A k \in 1..m : order[k] \in Keys
        /\ \A key \in Keys : \E k \in 1..m : order[k] = key
        /\ \A j, k \in 1..m : order[j] = order[k] => j = k
    <2>1. m \in Nat /\ Cardinality(Keys) = m /\ DOMAIN order = 1..m
      BY <1>3, ListsEach
    <2>2. o \in Nat /\ n = m + o
      BY <1>1, <1>4, <2>1, LoneOrphans DEF HypothesisCount
    <2>3. \A j, k \in 1..m : j = k \/ j < k \/ k < j
      BY <2>1
    <2>. QED  BY <2>1, <2>2, <2>3 DEF Lists
  <1>6. DOMAIN Group(Orphan) = 1..o
        /\ \A k \in 1..o : Lone[k] = HypothesisForOrphan(Group(Orphan)[k])
    <2>1. DOMAIN Lone = 1..o
      BY <1>4, LoneOrphans
    <2>. QED  BY <2>1 DEF Lone
  <1>7. /\ \A k \in 1..m : all[k] = HypothesisForGroup(order[k], Group(order[k]))
        /\ \A k \in 1..o : all[m + k] = Lone[k]
    BY <1>2, <1>3, <1>4, AllAreFair
  <1>. DEFINE tag == [k \in 1..n |-> IF k <= m THEN <<"bucket", order[k]>>
                                                ELSE <<"orphan", k - m>>]
  <1>8. \A k \in 1..n : IF k <= m THEN k \in 1..m /\ tag[k] = <<"bucket", order[k]>>
                         ELSE k - m \in 1..o /\ k = m + (k - m)
                              /\ tag[k] = <<"orphan", k - m>>
    BY <1>5
  <1>9. tag = [k \in 1..n |-> tag[k]]
    OBVIOUS
  <1>. HIDE DEF tag
  <1>10. tag \in [1..n -> Makings]
    <2>1. \A k \in 1..n : tag[k] \in Makings
      BY <1>5, <1>6, <1>8 DEF Makings
    <2>. QED  BY <1>9, <2>1
  <1>11. ASSUME NEW j \in 1..n, NEW k \in 1..n, tag[j] = tag[k] PROVE j = k
    <2>1. CASE j <= m /\ k <= m
      <3>1. j \in 1..m /\ k \in 1..m /\ order[j] = order[k]
        BY <1>8, <1>11, <2>1
      <3>. QED  BY <1>5, <3>1
    <2>2. CASE ~(j <= m) /\ ~(k <= m)
      <3>1. j - m = k - m
        BY <1>8, <1>11, <2>2
      <3>. QED  BY <1>5, <3>1
    <2>3. CASE (j <= m /\ ~(k <= m)) \/ (~(j <= m) /\ k <= m)
      BY <1>8, <1>11, <2>3
    <2>. QED  BY <2>1, <2>2, <2>3
  <1>12. ASSUME NEW t \in Makings PROVE \E k \in 1..n : tag[k] = t
    <2>1. CASE \E key \in Keys : t = <<"bucket", key>>
      <3>1. PICK k \in 1..m : t = <<"bucket", order[k]>>
        BY <1>5, <2>1
      <3>2. k \in 1..n /\ k <= m
        BY <1>5
      <3>. QED  BY <1>8, <3>1, <3>2
    <2>2. CASE \E k \in 1..o : t = <<"orphan", k>>
      <3>1. PICK k \in 1..o : t = <<"orphan", k>>
        BY <2>2
      <3>2. m + k \in 1..n /\ ~(m + k <= m) /\ (m + k) - m = k
        BY <1>5
      <3>. QED  BY <1>8, <3>1, <3>2
    <2>. QED  BY <1>6, <2>1, <2>2 DEF Makings
  <1>13. ASSUME NEW k \in 1..n PROVE all[k] = Hypothesis(tag[k])
    <2>1. CASE k <= m
      BY <1>7, <1>8, <2>1 DEF Hypothesis
    <2>2. CASE ~(k <= m)
      <3>1. PICK i \in 1..o : i = k - m /\ k = m + i /\ tag[k] = <<"orphan", i>>
        BY <1>8, <2>2
      <3>2. all[m + i] = HypothesisForOrphan(Group(Orphan)[i])
        BY <1>6, <1>7
      <3>. QED  BY <3>1, <3>2 DEF Hypothesis
    <2>. QED  BY <2>1, <2>2
  <1>14. MadeOf(tag, all, n)
    BY <1>10, <1>11, <1>12, <1>13 DEF MadeOf
  <1>. QED  BY <1>1, <1>2, <1>14

\* Sorting all of them: the same hypotheses, each once, best score first.
Ranks(o, all, n) ==
    /\ o \in [1..n -> 1..n]
    /\ \A p \in 1..n : \E k \in 1..n : o[k] = p
    /\ \A j, k \in 1..n : j < k => o[j] # o[k] /\ all[o[j]].score >= all[o[k]].score

LEMMA SortedByScore ==
  ASSUME NEW n \in Nat, NEW all, DOMAIN all = 1..n,
         \A k \in 1..n : all[k].score \in Int
  PROVE  \E o : Ranks(o, all, n) /\ SliceStable(all, HigherScore) = [k \in 1..n |-> all[o[k]]]
  <1>. DEFINE less == {p \in (1..n) \X (1..n) : all[p[1]].score > all[p[2]].score}
  <1>1. SliceStable(all, HigherScore) = Picked(all, 1..n, less)
    BY DEF SliceStable, HigherScore
  <1>2. \A i, j \in 1..n : <<i, j>> \in less <=> all[i].score > all[j].score
    OBVIOUS
  <1>. HIDE DEF less
  <1>3. StrictWeakOrder(less, 1..n)
    <2>1. \A i, j \in 1..n : <<i, j>> \in less => <<j, i>> \notin less
      BY <1>2
    <2>2. \A i, j, k \in 1..n : <<i, k>> \in less => <<i, j>> \in less \/ <<j, k>> \in less
      BY <1>2
    <2>. QED  BY <2>1, <2>2 DEF StrictWeakOrder
  <1>4. 1..n \in SUBSET Nat /\ IsFiniteSet(1..n) /\ Cardinality(1..n) = n
    BY FirstNumbers
  <1>5. PICK o : Enumerates(o, 1..n, less) /\ Picked(all, 1..n, less) = Along(all, o, 1..n)
    BY <1>3, <1>4, PickedInOrder
  <1>6. o \in [1..n -> 1..n] /\ \A p \in 1..n : \E k \in 1..n : o[k] = p
    BY <1>4, <1>5 DEF Enumerates
  <1>7. ASSUME NEW j \in 1..n, NEW k \in 1..n, j < k
        PROVE  o[j] # o[k] /\ all[o[j]].score >= all[o[k]].score
    <2>1. o[j] # o[k] /\ ComesFirst(less, o[j], o[k])
      BY <1>4, <1>5, <1>7 DEF Enumerates
    <2>2. PICK i \in 1..n : i = o[j]
      BY <1>6
    <2>3. PICK m \in 1..n : m = o[k]
      BY <1>6
    <2>4. <<m, i>> \notin less
      BY <1>3, <2>1, <2>2, <2>3 DEF ComesFirst, StrictWeakOrder
    <2>5. all[i].score >= all[m].score
      BY <1>2, <2>4
    <2>. QED  BY <2>1, <2>2, <2>3, <2>5
  <1>8. Ranks(o, all, n)
    BY <1>6, <1>7 DEF Ranks
  <1>9. SliceStable(all, HigherScore) = [k \in 1..n |-> all[o[k]]]
    BY <1>1, <1>4, <1>5 DEF Along
  <1>. QED  BY <1>8, <1>9

\* How many hypotheses the cap lets through.
Shown == IF TopN > 0 /\ TopN < HypothesisCount THEN TopN ELSE HypothesisCount

LEMMA RankedIsSorted ==
  ASSUME ev \in Inputs, NEW order, Lists(order, Keys)
  PROVE  /\ HypothesisCount \in Nat /\ Shown \in 0..HypothesisCount
         /\ \E o : /\ Ranks(o, AllOf(order), HypothesisCount)
                  /\ Len(Ranked(order)) = Shown /\ DOMAIN Ranked(order) = 1..Shown
                  /\ \A k \in 1..Shown : Ranked(order)[k] = AllOf(order)[o[k]]
  <1>. DEFINE n == HypothesisCount
  <1>1. PICK all : all = AllOf(order)
    OBVIOUS
  <1>2. n \in Nat /\ DOMAIN all = 1..n /\ \A k \in 1..n : all[k].score \in Int
    <2>1. n \in Nat /\ DOMAIN all = 1..n /\ \A k \in 1..n : Fair(all[k])
      BY <1>1, AllAreFair
    <2>. HIDE DEF n
    <2>. QED  BY <2>1, FairIsWhole
  <1>. HIDE DEF n
  <1>3. PICK o : Ranks(o, all, n) /\ SliceStable(all, HigherScore) = [k \in 1..n |-> all[o[k]]]
    BY <1>2, SortedByScore
  <1>4. PICK sorted : sorted = [k \in 1..n |-> all[o[k]]]
    OBVIOUS
  <1>5. Ranked(order) = IF TopN > 0 THEN Truncate(sorted, TopN) ELSE sorted
    BY <1>1, <1>3, <1>4 DEF Ranked, Capped
  <1>. DEFINE S == {sorted[k] : k \in 1..n}
  <1>6. sorted \in Seq(S) /\ Len(sorted) = n /\ DOMAIN sorted = 1..n
    BY <1>2, <1>4
  <1>. HIDE DEF S
  <1>7. Shown = IF TopN > 0 /\ TopN < n THEN TopN ELSE n
    BY DEF Shown, n
  <1>8. CASE TopN > 0
    <2>1. LET m == IF TopN < Len(sorted) THEN TopN ELSE Len(sorted)
          IN  /\ Truncate(sorted, TopN) \in Seq(S)
              /\ Len(Truncate(sorted, TopN)) = m
              /\ \A k \in 1..m : Truncate(sorted, TopN)[k] = sorted[k]
      BY <1>6, TopNAssumption, TruncateIsPrefix
    <2>2. Shown \in 0..n /\ Shown = IF TopN < Len(sorted) THEN TopN ELSE Len(sorted)
      BY <1>2, <1>6, <1>7, <1>8, TopNAssumption
    <2>3. /\ Ranked(order) \in Seq(S) /\ Len(Ranked(order)) = Shown
          /\ \A k \in 1..Shown : Ranked(order)[k] = sorted[k]
      BY <1>5, <1>8, <2>1, <2>2
    <2>4. Len(Ranked(order)) = Shown /\ DOMAIN Ranked(order) = 1..Shown
      BY <1>2, <2>2, <2>3
    <2>5. \A k \in 1..Shown : Ranked(order)[k] = AllOf(order)[o[k]]
      <3>1. \A k \in 1..n : sorted[k] = AllOf(order)[o[k]]
        BY <1>1, <1>4
      <3>2. \A k \in 1..Shown : k \in 1..n
        BY <1>2, <2>2
      <3>3. \A k \in 1..Shown : Ranked(order)[k] = sorted[k]
        BY <2>3
      <3>. QED  BY ONLY <3>1, <3>2, <3>3
    <2>. QED  BY <1>1, <1>2, <1>3, <2>2, <2>4, <2>5 DEF n
  <1>9. CASE ~(TopN > 0)
    <2>1. Shown = n /\ Ranked(order) = sorted
      BY <1>5, <1>7, <1>9
    <2>. QED  BY <1>1, <1>2, <1>3, <1>4, <1>6, <2>1 DEF n
  <1>. QED  BY <1>8, <1>9

\* The TopN best, best first, each scored by its own evidence.
LEMMA RankedIsBestFirst ==
  ASSUME ev \in Inputs, NEW order, Lists(order, Keys), ranking = Ranked(order)
  PROVE  BestFirst
  <1>. DEFINE n == HypothesisCount
  <1>1. PICK all : all = AllOf(order)
    OBVIOUS
  <1>2. n \in Nat /\ Shown \in 0..n
    BY RankedIsSorted
  <1>3. PICK o : /\ Ranks(o, all, n)
                 /\ Len(ranking) = Shown /\ DOMAIN ranking = 1..Shown
                 /\ \A k \in 1..Shown : ranking[k] = all[o[k]]
    BY <1>1, RankedIsSorted
  <1>4. \A k \in 1..n : Fair(all[k])
    BY <1>1, AllAreFair
  <1>5. PICK tag : MadeOf(tag, all, n)
    BY <1>1, AllAreMade
  <1>6. Shown = IF TopN > 0 THEN Min({TopN, n}) ELSE n
    <2>1. Shown = IF TopN > 0 /\ TopN < n THEN TopN ELSE n
      BY DEF Shown
    <2>. HIDE DEF n
    <2>. QED  BY <1>2, <2>1, TopNAssumption DEF Min
  <1>. HIDE DEF n
  <1>7. \A k \in 1..Shown : k \in 1..n
    BY <1>2
  <1>8. \A j, k \in DOMAIN ranking : j < k => ranking[j].score >= ranking[k].score
    <2>1. \A j, k \in 1..n : j < k => all[o[j]].score >= all[o[k]].score
      BY <1>3 DEF Ranks
    <2>. QED  BY <1>3, <1>7, <2>1
  <1>9. \A k \in DOMAIN ranking : ranking[k].score = FairScore(ranking[k])
    <2>1. \A k \in 1..n : o[k] \in 1..n
      BY <1>3 DEF Ranks
    <2>2. \A k \in DOMAIN ranking : Fair(ranking[k])
      BY <1>3, <1>4, <1>7, <2>1
    <2>. QED  BY <2>2, FairIsWhole
  <1>. DEFINE of == [k \in 1..Shown |-> tag[o[k]]]
  <1>10. \A k \in 1..n : o[k] \in 1..n
    BY <1>3 DEF Ranks
  <1>11. of \in Injection(DOMAIN ranking, Makings)
    <2>1. \A k \in 1..Shown : of[k] \in Makings
      BY <1>5, <1>7, <1>10 DEF MadeOf
    <2>2. ASSUME NEW j \in 1..Shown, NEW k \in 1..Shown, of[j] = of[k] PROVE j = k
      <3>1. o[j] = o[k]
        BY <1>5, <1>7, <1>10, <2>2 DEF MadeOf
      <3>2. j = k \/ j < k \/ k < j
        BY <1>2
      <3>. QED  BY <1>3, <1>7, <3>1, <3>2 DEF Ranks
    <2>. QED  BY <1>3, <2>1, <2>2 DEF Injection, IsInjective
  <1>12. \A k \in DOMAIN ranking : ranking[k] = Hypothesis(of[k])
    BY <1>3, <1>5, <1>7, <1>10 DEF MadeOf
  <1>13. ASSUME NEW t \in Makings
         PROVE  \/ \E k \in DOMAIN ranking : of[k] = t
                \/ \A k \in DOMAIN ranking : ranking[k].score >= Hypothesis(t).score
    <2>1. PICK p \in 1..n : tag[p] = t /\ all[p] = Hypothesis(t)
      BY <1>5 DEF MadeOf
    <2>2. PICK m \in 1..n : o[m] = p
      BY <1>3 DEF Ranks
    <2>3. CASE m <= Shown
      <3>1. m \in 1..Shown
        BY <1>2, <2>3
      <3>. QED  BY <1>3, <2>1, <2>2, <3>1
    <2>4. CASE m > Shown
      <3>1. ASSUME NEW k \in DOMAIN ranking PROVE ranking[k].score >= Hypothesis(t).score
        <4>1. k \in 1..n /\ k < m /\ ranking[k] = all[o[k]]
          BY <1>2, <1>3, <2>4
        <4>. QED  BY <1>3, <2>1, <2>2, <4>1 DEF Ranks
      <3>. QED  BY <3>1
    <2>. QED  BY <1>2, <2>3, <2>4
  <1>. HIDE DEF of
  <1>. QED  BY <1>3, <1>6, <1>8, <1>9, <1>11, <1>12, <1>13 DEF BestFirst, n

\* Two listings of the buckets rank to the same scores.
LEMMA NoneOutscores ==
  ASSUME ev \in Inputs, NEW one, Lists(one, Keys), NEW two, Lists(two, Keys),
         NEW o1, Ranks(o1, AllOf(one), HypothesisCount),
         NEW o2, Ranks(o2, AllOf(two), HypothesisCount)
  PROVE  \A k \in 1..HypothesisCount :
            AllOf(one)[o1[k]].score <= AllOf(two)[o2[k]].score
  <1>1. PICK n : n = HypothesisCount
    OBVIOUS
  <1>2. PICK a : a = AllOf(one)
    OBVIOUS
  <1>3. PICK b : b = AllOf(two)
    OBVIOUS
  <1>4. n \in Nat /\ Ranks(o1, a, n) /\ Ranks(o2, b, n)
    BY <1>1, <1>2, <1>3, AllAreFair
  <1>5. PICK m \in 0..n : m = Len(one) /\ m = Len(two) /\ n - m = Len(Lone)
    <2>1. Len(one) = Cardinality(Keys) /\ Len(two) = Cardinality(Keys) /\ Len(one) \in Nat
      BY ListsEach
    <2>2. n = Cardinality(Keys) + Len(Lone) /\ Len(Lone) \in Nat
      BY <1>1, LoneOrphans DEF HypothesisCount
    <2>. QED  BY <2>1, <2>2
  \* Where the i-th of the first listing's hypotheses is in the second's.
  <1>. DEFINE at == [i \in 1..n |-> IF i <= m THEN CHOOSE j \in 1..m : two[j] = one[i] ELSE i]
  <1>6. \A i \in 1..m : at[i] \in 1..m /\ two[at[i]] = one[i]
    <2>1. \A i \in 1..m : one[i] \in Keys /\ \E j \in 1..m : two[j] = one[i]
      <3>1. DOMAIN one = 1..m /\ DOMAIN two = 1..m
        BY <1>5, ListsEach
      <3>2. \A i \in DOMAIN one : one[i] \in Keys
        BY DEF Lists
      <3>3. \A key \in Keys : \E j \in DOMAIN two : two[j] = key
        BY DEF Lists
      <3>. QED  BY <3>1, <3>2, <3>3
    <2>2. \A i \in 1..m : i \in 1..n /\ i <= m
      BY <1>4, <1>5
    <2>. QED  BY <2>1, <2>2
  <1>7. \A i \in 1..n : i > m => at[i] = i
    BY <1>4, <1>5
  <1>. HIDE DEF at
  <1>8. \A i \in 1..n : at[i] \in 1..n /\ b[at[i]] = a[i]
    <2>. SUFFICES ASSUME NEW i \in 1..n PROVE at[i] \in 1..n /\ b[at[i]] = a[i]
      OBVIOUS
    <2>1. CASE i <= m
      <3>1. i \in 1..m /\ at[i] \in 1..m /\ at[i] \in 1..n
        BY <1>4, <1>5, <1>6, <2>1
      <3>2. a[i] = HypothesisForGroup(one[i], Group(one[i]))
        BY <1>2, <1>5, <3>1, AllAreFair
      <3>3. b[at[i]] = HypothesisForGroup(two[at[i]], Group(two[at[i]]))
        BY <1>3, <1>5, <3>1, AllAreFair
      <3>. QED  BY <1>6, <3>1, <3>2, <3>3
    <2>2. CASE i > m
      <3>1. PICK k \in 1..Len(Lone) : i = m + k
        <4>1. i - m \in 1..(n - m) /\ i = m + (i - m)
          BY <1>4, <1>5, <2>2
        <4>. QED  BY <1>5, <4>1
      <3>2. a[m + k] = Lone[k]
        BY <1>2, <1>5, AllAreFair
      <3>3. b[m + k] = Lone[k]
        BY <1>3, <1>5, AllAreFair
      <3>. QED  BY <1>7, <2>2, <3>1, <3>2, <3>3
    <2>. QED  BY <1>4, <1>5, <2>1, <2>2
  <1>9. \A i, j \in 1..n : i # j => at[i] # at[j]
    <2>. SUFFICES ASSUME NEW i \in 1..n, NEW j \in 1..n, i < j PROVE at[i] # at[j]
      <3>1. \A i, j \in 1..n : i # j => i < j \/ j < i
        BY <1>4
      <3>. QED  BY <3>1
    <2>1. CASE j <= m
      <3>1. i \in 1..m /\ j \in 1..m
        BY <1>4, <1>5, <2>1
      <3>2. one[i] # one[j]
        <4>1. DOMAIN one = 1..m
          BY <1>5, ListsEach
        <4>. QED  BY <3>1, <4>1 DEF Lists
      <3>. QED  BY <1>6, <3>1, <3>2
    <2>2. CASE i <= m /\ j > m
      <3>1. i \in 1..m /\ at[i] \in 1..m /\ at[j] = j
        BY <1>4, <1>5, <1>6, <1>7, <2>2
      <3>. QED  BY <1>4, <1>5, <2>2, <3>1
    <2>3. CASE i > m
      BY <1>4, <1>5, <1>7, <2>3
    <2>. QED  BY <1>4, <1>5, <2>1, <2>2, <2>3
  <1>. DEFINE p == [k \in 1..n |-> CHOOSE q \in 1..n : o2[q] = at[o1[k]]]
  <1>10. \A k \in 1..n : p[k] \in 1..n /\ o2[p[k]] = at[o1[k]]
    <2>1. \A k \in 1..n : o1[k] \in 1..n /\ at[o1[k]] \in 1..n
      BY <1>4, <1>8 DEF Ranks
    <2>2. \A k \in 1..n : \E q \in 1..n : o2[q] = at[o1[k]]
      BY <1>4, <2>1 DEF Ranks
    <2>. QED  BY <2>2
  <1>11. p \in [1..n -> 1..n]
    BY <1>10
  <1>. HIDE DEF p
  <1>12. \A j, k \in 1..n : j # k => p[j] # p[k]
    <2>1. \A j, k \in 1..n : j # k => o1[j] # o1[k]
      <3>1. \A j, k \in 1..n : j # k => j < k \/ k < j
        BY <1>4
      <3>. QED  BY <1>4, <3>1 DEF Ranks
    <2>2. \A k \in 1..n : o1[k] \in 1..n
      BY <1>4 DEF Ranks
    <2>. QED  BY <1>9, <1>10, <2>1, <2>2
  <1>. DEFINE f == [k \in 1..n |-> a[o1[k]].score]
              g == [k \in 1..n |-> b[o2[k]].score]
  <1>13. f \in [1..n -> Int] /\ g \in [1..n -> Int]
    <2>1. \A k \in 1..n : a[k].score \in Int /\ b[k].score \in Int
      <3>1. \A k \in 1..n : Fair(a[k])
        BY <1>1, <1>2, AllAreFair
      <3>2. \A k \in 1..n : Fair(b[k])
        BY <1>1, <1>3, AllAreFair
      <3>. QED  BY <3>1, <3>2, FairIsWhole
    <2>2. \A k \in 1..n : o1[k] \in 1..n /\ o2[k] \in 1..n
      BY <1>4 DEF Ranks
    <2>. QED  BY <2>1, <2>2
  <1>14. \A j, k \in 1..n : j < k => f[j] >= f[k] /\ g[j] >= g[k]
    BY <1>4 DEF Ranks
  <1>15. \A k \in 1..n : g[p[k]] = f[k]
    <2>1. \A k \in 1..n : o1[k] \in 1..n
      BY <1>4 DEF Ranks
    <2>. QED  BY <1>8, <1>10, <2>1
  <1>16. \A k \in 1..n : f[k] = a[o1[k]].score /\ g[k] = b[o2[k]].score
    OBVIOUS
  <1>. HIDE DEF f, g
  <1>17. \A k \in 1..n : f[k] <= g[k]
    BY <1>4, <1>11, <1>12, <1>13, <1>14, <1>15, DescendingAgree
  <1>. QED  BY <1>1, <1>2, <1>3, <1>16, <1>17

-----------------------------------------------------------------------------
(* Ranking: the range over the map visits the buckets one by one, in some   *)
(* order; what it has made of them so far is the ranking of that listing.   *)

RankerInv ==
    /\ ev \in Inputs
    /\ pc \in {"ranging", "done"}
    /\ unseen \subseteq Keys
    /\ pc = "ranging" => \E order : Lists(order, Keys \ unseen) /\ ranking = Visited(order)
    /\ pc = "done" => /\ unseen = {}
                      /\ \E order : Lists(order, Keys) /\ ranking = Ranked(order)

LEMMA RankerInit == RankInit => RankerInv
  <1>. SUFFICES ASSUME RankInit PROVE RankerInv
    OBVIOUS
  <1>1. Lists(<<>>, Keys \ unseen)
    BY DEF RankInit, Lists
  <1>2. Visited(<<>>) = <<>>
    BY DEF Visited
  <1>. QED  BY <1>1, <1>2 DEF RankInit, RankerInv

\* One more bucket is one more at the end of the listing.
LEMMA ListsOneMore ==
  ASSUME NEW T, NEW t \in T, NEW rest \in SUBSET T, t \in rest,
         NEW order, Lists(order, T \ rest)
  PROVE  Lists(Append(order, t), T \ (rest \ {t}))
  <1>. DEFINE n == Len(order)
              S == T \ (rest \ {t})
              more == Append(order, t)
  <1>1. n \in Nat /\ DOMAIN order = 1..n /\ order \in Seq(T \ rest)
    BY ListsEach DEF Lists
  <1>2. order \in Seq(S) /\ t \in S
    <2>1. T \ rest \subseteq S /\ t \in S
      OBVIOUS
    <2>. HIDE DEF S
    <2>. QED  BY <1>1, <2>1
  <1>3. /\ more \in Seq(S) /\ DOMAIN more = 1..(n + 1) /\ more[n + 1] = t
        /\ \A k \in 1..n : more[k] = order[k]
    <2>. HIDE DEF S
    <2>. QED  BY <1>1, <1>2
  <1>4. ASSUME NEW u \in S PROVE \E k \in DOMAIN more : more[k] = u
    <2>1. CASE u = t
      BY <1>1, <1>3, <2>1
    <2>2. CASE u # t
      <3>1. PICK k \in 1..n : order[k] = u
        BY <1>1, <2>2 DEF Lists
      <3>. QED  BY <1>1, <1>3, <3>1
    <2>. QED  BY <2>1, <2>2
  <1>5. ASSUME NEW j \in DOMAIN more, NEW k \in DOMAIN more, j < k
        PROVE  more[j] # more[k]
    <2>1. j \in 1..n /\ more[j] = order[j] /\ order[j] # t
      <3>1. j \in 1..n
        BY <1>1, <1>3, <1>5
      <3>2. order[j] \in T \ rest
        BY <1>1, <3>1
      <3>. QED  BY <1>3, <3>1, <3>2
    <2>2. CASE k = n + 1
      BY <1>3, <2>1, <2>2
    <2>3. CASE k # n + 1
      <3>1. k \in 1..n
        BY <1>1, <1>3, <2>3
      <3>2. order[j] # order[k]
        BY <1>1, <1>5, <2>1, <3>1 DEF Lists
      <3>. QED  BY <1>3, <2>1, <3>1, <3>2
    <2>. QED  BY <2>2, <2>3
  <1>. HIDE DEF S, more
  <1>6. Lists(more, S)
    BY <1>3, <1>4, <1>5 DEF Lists
  <1>. QED  BY <1>6 DEF S, more

LEMMA VisitedOneMore ==
  ASSUME NEW T, NEW order \in Seq(T), NEW key
  PROVE  Visited(Append(order, key)) = Append(Visited(order), HypothesisForGroup(key, Group(key)))
  <1>. DEFINE n == Len(order)
              h(k) == HypothesisForGroup(k, Group(k))
  <1>1. n \in Nat /\ DOMAIN order = 1..n
    OBVIOUS
  <1>2. Visited(order) = [k \in 1..n |-> h(order[k])]
    BY <1>1 DEF Visited
  <1>3. /\ DOMAIN Append(order, key) = 1..(n + 1)
        /\ \A k \in 1..(n + 1) : Append(order, key)[k] = IF k <= n THEN order[k] ELSE key
    BY <1>1
  <1>4. Visited(Append(order, key)) = [k \in 1..(n + 1) |-> h(Append(order, key)[k])]
    BY <1>3 DEF Visited
  <1>. HIDE DEF n, h
  <1>5. Len(Visited(order)) = n
    BY <1>1, <1>2
  <1>6. Append(Visited(order), h(key))
          = [k \in 1..(n + 1) |-> IF k <= n THEN h(order[k]) ELSE h(key)]
    BY <1>1, <1>2, <1>5
  <1>7. \A k \in 1..(n + 1) :
           h(Append(order, key)[k]) = IF k <= n THEN h(order[k]) ELSE h(key)
    BY <1>3
  <1>8. Visited(Append(order, key)) = Append(Visited(order), h(key))
    BY <1>4, <1>6, <1>7
  <1>. QED  BY <1>8 DEF h

\* Nothing about the evidence changes while it is ranked.
LEMMA SameEvidence ==
  ASSUME ev' = ev
  PROVE  /\ Keys' = Keys
         /\ \A order : Visited(order)' = Visited(order) /\ Ranked(order)' = Ranked(order)
  <1>1. Keys' = Keys
    BY DEF Keys
  <1>2. \A key : Group(key)' = Group(key)
    BY DEF Group, Selected
  <1>3. \A order : Visited(order)' = Visited(order)
    BY <1>2 DEF Visited
  <1>4. Lone' = Lone
    BY <1>2 DEF Lone
  <1>5. \A order : AllOf(order)' = AllOf(order)
    BY <1>3, <1>4 DEF AllOf
  <1>6. \A order : Ranked(order)' = Ranked(order)
    BY <1>5 DEF Ranked
  <1>. QED  BY <1>1, <1>3, <1>6

LEMMA RankerStep ==
  ASSUME RankerInv, [RankNext]_rankVars
  PROVE  RankerInv'
  <1>1. ASSUME NEW key \in Keys, Visit(key)
        PROVE  RankerInv'
    <2>1. /\ key \in unseen /\ unseen' = unseen \ {key} /\ ev' = ev /\ pc' = pc
          /\ ranking' = Append(ranking, HypothesisForGroup(key, Group(key)))
      BY <1>1 DEF Visit
    <2>2. CASE pc = "ranging"
      <3>1. PICK order : Lists(order, Keys \ unseen) /\ ranking = Visited(order)
        BY <2>2 DEF RankerInv
      <3>2. Lists(Append(order, key), Keys \ unseen')
        BY <2>1, <3>1, ListsOneMore DEF RankerInv
      <3>3. ranking' = Visited(Append(order, key))
        BY <2>1, <3>1, VisitedOneMore DEF Lists
      <3>. QED  BY <2>1, <2>2, <3>2, <3>3, SameEvidence DEF RankerInv
    <2>3. CASE pc # "ranging"
      BY <2>1, <2>3 DEF RankerInv
    <2>. QED  BY <2>2, <2>3
  <1>2. CASE Finish
    <2>1. PICK order : Lists(order, Keys) /\ ranking = Visited(order)
      <3>1. Keys \ unseen = Keys
        BY <1>2 DEF Finish
      <3>. QED  BY <1>2, <3>1 DEF Finish, RankerInv
    <2>2. ranking' = Ranked(order)
      BY <1>2, <2>1 DEF Finish, Ranked, AllOf, Lone
    <2>3. ev' = ev /\ unseen' = unseen /\ pc' = "done"
      BY <1>2 DEF Finish
    <2>4. unseen = {}
      BY <1>2 DEF Finish
    <2>. QED  BY <2>1, <2>2, <2>3, <2>4, SameEvidence DEF RankerInv
  <1>3. CASE UNCHANGED rankVars
    BY <1>3, SameEvidence DEF rankVars, RankerInv
  <1>. QED  BY <1>1, <1>2, <1>3 DEF RankNext

LEMMA RankerInvariant == RankSpec => []RankerInv
  BY RankerInit, RankerStep, PTL DEF RankSpec

-----------------------------------------------------------------------------
(* What the ranking promises. *)

\* Whatever the order of the map, a finished ranking is the TopN best of the
\* hypotheses of the buckets and the orphans, each once, best first, each with
\* the score its own evidence gives it, and none it leaves out outscores one it
\* shows (Rank).
THEOREM RankerBestFirst == RankSpec => []BestFirst
  <1>1. RankerInv => BestFirst
    <2>. SUFFICES ASSUME RankerInv PROVE BestFirst
      OBVIOUS
    <2>1. CASE pc = "done"
      <3>1. PICK order : Lists(order, Keys) /\ ranking = Ranked(order)
        BY <2>1 DEF RankerInv
      <3>. QED  BY <3>1, RankedIsBestFirst DEF RankerInv
    <2>2. CASE pc # "done"
      BY <2>2 DEF BestFirst
    <2>. QED  BY <2>1, <2>2
  <1>. QED  BY <1>1, RankerInvariant, PTL

\* "The ranking is still deterministic": two walks over the map may differ in
\* which of two hypotheses of equal score comes first, not in the scores.
THEOREM RankerScoresAreDeterministic == RankSpec => []ScoresAreDeterministic
  <1>1. ASSUME RankerInv, pc = "done", NEW other \in Rankings
        PROVE  [k \in DOMAIN other |-> other[k].score]
                 = [k \in DOMAIN ranking |-> ranking[k].score]
    <2>1. PICK one : Lists(one, Keys) /\ ranking = Ranked(one)
      BY <1>1 DEF RankerInv
    <2>2. PICK two \in SetToSeqs(Keys) : other = Ranked(two)
      BY DEF Rankings, Ranked, AllOf, Visited, Lone
    <2>3. Lists(two, Keys)
      <3>1. IsFiniteSet(Keys)
        BY <2>1, ListsEach
      <3>. QED  BY <3>1, SetToSeqsLists
    <2>. DEFINE n == HypothesisCount
    <2>4. n \in Nat /\ Shown \in 0..n
      BY <1>1, <2>1, RankedIsSorted DEF RankerInv
    <2>5. PICK o1 : /\ Ranks(o1, AllOf(one), n) /\ DOMAIN ranking = 1..Shown
                    /\ \A k \in 1..Shown : ranking[k] = AllOf(one)[o1[k]]
      BY <1>1, <2>1, RankedIsSorted DEF RankerInv
    <2>6. PICK o2 : /\ Ranks(o2, AllOf(two), n) /\ DOMAIN other = 1..Shown
                    /\ \A k \in 1..Shown : other[k] = AllOf(two)[o2[k]]
      BY <1>1, <2>2, <2>3, RankedIsSorted DEF RankerInv
    <2>7. \A k \in 1..n : AllOf(one)[o1[k]].score <= AllOf(two)[o2[k]].score
      BY <1>1, <2>1, <2>3, <2>5, <2>6, NoneOutscores DEF RankerInv
    <2>8. \A k \in 1..n : AllOf(two)[o2[k]].score <= AllOf(one)[o1[k]].score
      BY <1>1, <2>1, <2>3, <2>5, <2>6, NoneOutscores DEF RankerInv
    <2>9. \A k \in 1..n : AllOf(one)[k].score \in Int /\ AllOf(two)[k].score \in Int
      <3>1. \A k \in 1..n : Fair(AllOf(one)[k]) /\ Fair(AllOf(two)[k])
        BY <1>1, <2>1, <2>3, AllAreFair DEF RankerInv
      <3>. QED  BY <3>1, FairIsWhole
    <2>10. \A k \in 1..n : o1[k] \in 1..n /\ o2[k] \in 1..n
      BY <2>5, <2>6 DEF Ranks
    <2>. HIDE DEF n
    <2>11. \A k \in 1..Shown : k \in 1..n
      BY <2>4
    <2>12. \A k \in 1..Shown : ranking[k].score = other[k].score
      BY <2>5, <2>6, <2>7, <2>8, <2>9, <2>10, <2>11
    <2>. QED  BY <2>5, <2>6, <2>12
  <1>2. RankerInv => ScoresAreDeterministic
    BY <1>1 DEF ScoresAreDeterministic
  <1>. QED  BY <1>2, RankerInvariant, PTL

-----------------------------------------------------------------------------
(* No item is lost or shown twice.  A place of the ranking's items is that  *)
(* of one item of one hypothesis, which is at one place of the evidence.    *)

\* Two lists with the same items at places matched one to one.
LEMMA MatchedItems ==
  ASSUME NEW s, DOMAIN s = 1..Len(s), Len(s) \in Nat,
         NEW t, DOMAIN t = 1..Len(t), Len(t) \in Nat,
         NEW b \in [1..Len(s) -> 1..Len(t)],
         \A p \in 1..Len(t) : \E k \in 1..Len(s) : b[k] = p,
         \A j, k \in 1..Len(s) : j < k => b[j] # b[k],
         \A k \in 1..Len(s) : s[k] = t[b[k]]
  PROVE  Len(s) = Len(t) /\ \A e : Occurrences(e, s) = Occurrences(e, t)
  <1>1. PICK m \in Nat : m = Len(s)
    OBVIOUS
  <1>2. PICK n \in Nat : n = Len(t)
    OBVIOUS
  <1>3. m = n
    <2>1. b \in [1..m -> 1..n] /\ \A j, k \in 1..m : j < k => b[j] # b[k]
      BY <1>1, <1>2
    <2>2. \A p \in 1..n : \E k \in 1..m : b[k] = p
      BY <1>1, <1>2
    <2>3. IsFiniteSet(1..n) /\ Cardinality(1..n) = m
      BY ONLY <2>1, <2>2, ListedOnce, m \in Nat
    <2>. QED  BY <2>3, FirstNumbers
  <1>4. \A j, k \in 1..m : b[j] = b[k] => j = k
    <2>1. \A j, k \in 1..m : j = k \/ j < k \/ k < j
      OBVIOUS
    <2>. QED  BY <1>1, <2>1
  <1>5. ASSUME NEW e PROVE Occurrences(e, s) = Occurrences(e, t)
    <2>. DEFINE A == {k \in 1..m : s[k] = e}
                B == {k \in 1..n : t[k] = e}
                r == [k \in A |-> b[k]]
    <2>1. Occurrences(e, s) = Cardinality(A) /\ Occurrences(e, t) = Cardinality(B)
      BY <1>1, <1>2 DEF Occurrences
    <2>2. \A k \in A : r[k] \in B
      BY <1>1, <1>2
    <2>3. \A k \in B : \E j \in A : r[j] = k
      BY <1>1, <1>2
    <2>4. \A j, k \in A : r[j] = r[k] => j = k
      BY <1>4
    <2>5. r \in [A -> B]
      BY <2>2
    <2>6. A \in SUBSET (1..m) /\ IsFiniteSet(1..m)
      BY FirstNumbers
    <2>. HIDE DEF A, B, r
    <2>7. r \in Bijection(A, B)
      <3>1. r \in Injection(A, B)
        BY <2>4, <2>5 DEF Injection, IsInjective
      <3>2. r \in Surjection(A, B)
        BY <2>3, <2>5 DEF Surjection
      <3>. QED  BY <3>1, <3>2 DEF Bijection
    <2>8. IsFiniteSet(A)
      BY <2>6, FS_Subset
    <2>9. Cardinality(B) = Cardinality(A)
      BY <2>7, <2>8, FS_Bijection DEF ExistsBijection
    <2>. QED  BY <2>1, <2>9
  <1>. QED  BY <1>1, <1>2, <1>3, <1>5

\* at[k][j] is the place in the evidence of the j-th item of hypothesis k:
\* one place for each item, and every place.
Partition(at, all, n) ==
    /\ \A k \in 1..n :
          /\ all[k].evidence \in Seq(Evid)
          /\ \A j \in 1..Len(all[k].evidence) :
                at[k][j] \in DOMAIN ev /\ all[k].evidence[j] = ev[at[k][j]]
    /\ \A p \in DOMAIN ev : \E k \in 1..n : \E j \in 1..Len(all[k].evidence) : at[k][j] = p
    /\ \A k, l \in 1..n :
          \A i \in 1..Len(all[k].evidence), j \in 1..Len(all[l].evidence) :
             at[k][i] = at[l][j] => k = l /\ i = j

\* Of a bucket: the places with its key.
PlacedAt(at, shown, key) ==
    /\ \A j \in 1..Len(shown) : at[j] \in Places(key) /\ shown[j] = ev[at[j]]
    /\ \A p \in Places(key) : \E j \in 1..Len(shown) : at[j] = p
    /\ \A i, j \in 1..Len(shown) : at[i] = at[j] => i = j

LEMMA BucketAt ==
  ASSUME ev \in Inputs, NEW key
  PROVE  LET shown == HypothesisForGroup(key, Group(key)).evidence
         IN  shown \in Seq(Evid) /\ \E at : PlacedAt(at, shown, key)
  <1>1. PICK shown : shown = HypothesisForGroup(key, Group(key)).evidence
    OBVIOUS
  <1>2. PICK at : Covers(at, key) /\ shown = Along(ev, at, Places(key))
    BY <1>1, HypothesisCovers DEF HypothesisForGroup
  <1>3. PICK n \in Nat : n = Cardinality(Places(key))
    BY EvidenceType
  <1>4. \A j \in 1..n : at[j] \in Places(key) /\ ev[at[j]] \in Evid
    BY <1>2, <1>3 DEF Covers, Places, Evid
  <1>5. shown = [j \in 1..n |-> ev[at[j]]]
    BY <1>2, <1>3 DEF Along
  <1>6. shown \in Seq(Evid) /\ Len(shown) = n
    BY <1>4, <1>5
  <1>7. \A i, j \in 1..n : at[i] = at[j] => i = j
    <2>1. \A i, j \in 1..n : i = j \/ i < j \/ j < i
      OBVIOUS
    <2>. QED  BY <1>2, <1>3, <2>1 DEF Covers
  <1>8. \A p \in Places(key) : \E j \in 1..n : at[j] = p
    BY <1>2, <1>3 DEF Covers
  <1>9. PlacedAt(at, shown, key)
    BY <1>4, <1>5, <1>6, <1>7, <1>8 DEF PlacedAt
  <1>. QED  BY <1>1, <1>6, <1>9

LEMMA AllPartition ==
  ASSUME ev \in Inputs, NEW order, Lists(order, Keys)
  PROVE  \E at : Partition(at, AllOf(order), HypothesisCount)
  <1>1. PICK n : n = HypothesisCount
    OBVIOUS
  <1>2. PICK all : all = AllOf(order)
    OBVIOUS
  <1>3. PICK lone : /\ Covers(lone, Orphan)
                    /\ Lone = [k \in 1..Len(Lone) |-> HypothesisForOrphan(ev[lone[k]])]
    BY LoneOrphans
  <1>4. PICK m \in Nat : m = Len(order) /\ n = m + Len(Lone) /\ DOMAIN order = 1..m
    <2>1. /\ Len(order) \in Nat /\ DOMAIN order = 1..Len(order)
          /\ HypothesisCount = Len(order) + Len(Lone)
      BY ListsEach, LoneOrphans DEF HypothesisCount
    <2>. QED  BY <1>1, <2>1
  <1>5. PICK c \in Nat : /\ c = Len(Lone) /\ c = Cardinality(Places(Orphan)) /\ n = m + c
                         /\ n \in Nat
    BY <1>4, LoneOrphans
  <1>. DEFINE IsAt(a, k) == PlacedAt(a, all[k].evidence, order[k])
              at == [k \in 1..n |-> IF k <= m THEN CHOOSE a : IsAt(a, k) ELSE <<lone[k - m]>>]
  <1>6. \A k \in 1..m : k \in 1..n /\ order[k] \in Keys
                        /\ all[k] = HypothesisForGroup(order[k], Group(order[k]))
    BY <1>1, <1>2, <1>4, AllAreFair DEF Lists
  <1>7. \A k \in 1..m : all[k].evidence \in Seq(Evid) /\ IsAt(at[k], k)
    <2>. SUFFICES ASSUME NEW k \in 1..m PROVE all[k].evidence \in Seq(Evid) /\ IsAt(at[k], k)
      OBVIOUS
    <2>1. all[k].evidence \in Seq(Evid) /\ \E a : IsAt(a, k)
      <3>1. PICK key : key = order[k]
        OBVIOUS
      <3>2. PICK shown : shown = all[k].evidence
        OBVIOUS
      <3>3. shown = HypothesisForGroup(key, Group(key)).evidence
        BY <1>6, <3>1, <3>2
      <3>4. shown \in Seq(Evid) /\ \E a : PlacedAt(a, shown, key)
        BY <3>3, BucketAt
      <3>. QED  BY <3>1, <3>2, <3>4
    <2>. HIDE DEF IsAt
    <2>2. at[k] = CHOOSE a : IsAt(a, k)
      BY <1>6
    <2>. HIDE DEF at
    <2>. QED  BY <2>1, <2>2
  <1>8. ASSUME NEW k \in 1..c
        PROVE  /\ m + k \in 1..n /\ at[m + k][1] = lone[k]
               /\ all[m + k].evidence \in Seq(Evid) /\ Len(all[m + k].evidence) = 1
               /\ all[m + k].evidence[1] = ev[lone[k]]
               /\ lone[k] \in DOMAIN ev /\ BucketKey(ev[lone[k]]) = Orphan
    <2>1. m + k \in 1..n /\ ~(m + k <= m) /\ (m + k) - m = k
      BY <1>5
    <2>2. at[m + k] = <<lone[k]>>
      BY <2>1
    <2>3. all[m + k] = Lone[k]
      BY <1>2, <1>4, <1>5, AllAreFair
    <2>4. Lone[k].evidence = <<ev[lone[k]]>>
      BY <1>3, <1>5 DEF HypothesisForOrphan
    <2>5. lone[k] \in DOMAIN ev /\ BucketKey(ev[lone[k]]) = Orphan
      BY <1>3, <1>5 DEF Covers, Places
    <2>6. ev[lone[k]] \in Evid
      BY <2>5 DEF Evid
    <2>. HIDE DEF at
    <2>7. all[m + k].evidence = <<ev[lone[k]]>>
      BY <2>3, <2>4
    <2>8. at[m + k][1] = lone[k]
      BY <2>2
    <2>9. /\ all[m + k].evidence \in Seq(Evid) /\ Len(all[m + k].evidence) = 1
          /\ all[m + k].evidence[1] = ev[lone[k]]
      BY <2>6, <2>7
    <2>. QED  BY <2>1, <2>5, <2>8, <2>9
  <1>. HIDE DEF at, IsAt
  <1>9. \A k \in 1..n : k \in 1..m \/ \E i \in 1..c : k = m + i
    <2>. SUFFICES ASSUME NEW k \in 1..n, k \notin 1..m PROVE \E i \in 1..c : k = m + i
      OBVIOUS
    <2>1. k - m \in 1..c /\ k = m + (k - m)
      BY <1>5
    <2>. QED  BY <2>1
  <1>10. ASSUME NEW k \in 1..n
         PROVE  /\ all[k].evidence \in Seq(Evid)
                /\ \A j \in 1..Len(all[k].evidence) :
                      at[k][j] \in DOMAIN ev /\ all[k].evidence[j] = ev[at[k][j]]
    <2>1. CASE k \in 1..m
      BY <1>7, <2>1 DEF IsAt, PlacedAt, Places
    <2>2. ASSUME NEW i \in 1..c, k = m + i
          PROVE  /\ all[k].evidence \in Seq(Evid)
                 /\ \A j \in 1..Len(all[k].evidence) :
                       at[k][j] \in DOMAIN ev /\ all[k].evidence[j] = ev[at[k][j]]
      <3>1. /\ all[k].evidence \in Seq(Evid) /\ Len(all[k].evidence) = 1
            /\ all[k].evidence[1] = ev[lone[i]] /\ lone[i] \in DOMAIN ev
            /\ at[k][1] = lone[i]
        BY <1>8, <2>2
      <3>2. \A j \in 1..Len(all[k].evidence) : j = 1
        BY <3>1
      <3>. QED  BY <3>1, <3>2
    <2>. QED  BY <1>9, <2>1, <2>2
  <1>11. ASSUME NEW p \in DOMAIN ev
         PROVE  \E k \in 1..n : \E j \in 1..Len(all[k].evidence) : at[k][j] = p
    <2>1. CASE BucketKey(ev[p]) = Orphan
      <3>1. PICK i \in 1..c : lone[i] = p
        BY <1>3, <1>5, <2>1 DEF Covers, Places
      <3>2. /\ m + i \in 1..n /\ 1 \in 1..Len(all[m + i].evidence)
            /\ at[m + i][1] = p
        BY <1>8, <3>1
      <3>. QED  BY <3>2
    <2>2. CASE BucketKey(ev[p]) # Orphan
      <3>1. PICK k \in 1..m : order[k] = BucketKey(ev[p])
        BY <1>4, <2>2, KeysArePlaced DEF Lists
      <3>2. p \in Places(order[k])
        BY <3>1 DEF Places
      <3>. QED  BY <1>6, <1>7, <3>2 DEF IsAt, PlacedAt
    <2>. QED  BY <2>1, <2>2
  \* The bucket key of an item tells its hypothesis.
  <1>12. ASSUME NEW k \in 1..n, NEW l \in 1..n,
                NEW i \in 1..Len(all[k].evidence), NEW j \in 1..Len(all[l].evidence),
                at[k][i] = at[l][j]
         PROVE  k = l /\ i = j
    <2>1. \A q \in 1..m : \A x \in 1..Len(all[q].evidence) :
             BucketKey(ev[at[q][x]]) = order[q] /\ order[q] # Orphan
      BY <1>6, <1>7, KeysArePlaced DEF IsAt, PlacedAt, Places
    <2>2. ASSUME NEW q \in 1..c, NEW x \in 1..Len(all[m + q].evidence)
          PROVE  x = 1 /\ at[m + q][x] = lone[q] /\ BucketKey(ev[at[m + q][x]]) = Orphan
      <3>1. /\ Len(all[m + q].evidence) = 1 /\ at[m + q][1] = lone[q]
            /\ BucketKey(ev[lone[q]]) = Orphan
        BY <1>8
      <3>2. x = 1
        BY <3>1
      <3>. QED  BY <3>1, <3>2
    <2>3. CASE k \in 1..m /\ l \in 1..m
      <3>1. order[k] = order[l]
        BY <1>12, <2>1, <2>3
      <3>2. k = l
        <4>1. k = l \/ k < l \/ l < k
          BY <2>3
        <4>. QED  BY <1>4, <2>3, <3>1, <4>1 DEF Lists
      <3>. QED  BY <1>7, <1>12, <2>3, <3>2 DEF IsAt, PlacedAt
    <2>4. ASSUME NEW x \in 1..c, k = m + x, NEW y \in 1..c, l = m + y
          PROVE  k = l /\ i = j
      <3>1. lone[x] = lone[y] /\ i = 1 /\ j = 1
        BY <1>12, <2>2, <2>4
      <3>2. x = y
        <4>1. x = y \/ x < y \/ y < x
          OBVIOUS
        <4>. QED  BY <1>3, <1>5, <3>1, <4>1 DEF Covers
      <3>. QED  BY <2>4, <3>1, <3>2
    <2>5. CASE k \in 1..m /\ \E y \in 1..c : l = m + y
      <3>1. BucketKey(ev[at[k][i]]) # Orphan
        BY <2>1, <2>5
      <3>2. BucketKey(ev[at[l][j]]) = Orphan
        BY <2>2, <2>5
      <3>. QED  BY <1>12, <3>1, <3>2
    <2>6. CASE l \in 1..m /\ \E x \in 1..c : k = m + x
      <3>1. BucketKey(ev[at[l][j]]) # Orphan
        BY <2>1, <2>6
      <3>2. BucketKey(ev[at[k][i]]) = Orphan
        BY <2>2, <2>6
      <3>. QED  BY <1>12, <3>1, <3>2
    <2>. QED  BY <1>9, <2>3, <2>4, <2>5, <2>6
  <1>13. Partition(at, all, n)
    BY <1>10, <1>11, <1>12 DEF Partition
  <1>. QED  BY <1>1, <1>2, <1>13

LEMMA RankedLosesNothing ==
  ASSUME ev \in Inputs, NEW order, Lists(order, Keys), ranking = Ranked(order),
         TopN = 0 \/ HypothesisCount <= TopN
  PROVE  /\ Len(Items(ranking)) = Len(ev)
         /\ \A e : Occurrences(e, Items(ranking)) = Occurrences(e, ev)
  <1>1. PICK n \in Nat : n = HypothesisCount
    BY RankedIsSorted
  <1>2. PICK all : all = AllOf(order)
    OBVIOUS
  <1>3. Shown = n
    BY <1>1, TopNAssumption DEF Shown
  <1>4. PICK o : /\ Ranks(o, all, n) /\ DOMAIN ranking = 1..n
                 /\ \A k \in 1..n : ranking[k] = all[o[k]]
    BY <1>1, <1>2, <1>3, RankedIsSorted
  <1>5. PICK at : Partition(at, all, n)
    BY <1>1, <1>2, AllPartition
  <1>6. /\ \A k \in 1..n : o[k] \in 1..n
        /\ \A p \in 1..n : \E k \in 1..n : o[k] = p
        /\ \A j, k \in 1..n : o[j] = o[k] => j = k
    <2>1. \A j, k \in 1..n : j = k \/ j < k \/ k < j
      OBVIOUS
    <2>. QED  BY <1>4, <2>1 DEF Ranks
  <1>7. PICK seqs : seqs = [k \in DOMAIN ranking |-> ranking[k].evidence]
    OBVIOUS
  <1>8. \A k \in 1..n : seqs[k] = all[o[k]].evidence /\ seqs[k] \in Seq(Evid)
    <2>1. \A h \in 1..n : all[h].evidence \in Seq(Evid)
      BY <1>5 DEF Partition
    <2>2. \A k \in 1..n : seqs[k] = ranking[k].evidence
      BY <1>4, <1>7
    <2>3. \A k \in 1..n : seqs[k] = all[o[k]].evidence
      BY <1>4, <2>2
    <2>. QED  BY <1>6, <2>1, <2>3
  <1>9. seqs \in Seq(Seq(Evid)) /\ Len(seqs) = n
    <2>1. seqs = [k \in 1..n |-> seqs[k]]
      BY <1>4, <1>7
    <2>. DEFINE T == Seq(Evid)
    <2>2. \A k \in 1..n : seqs[k] \in T
      BY <1>8
    <2>. HIDE DEF T
    <2>3. seqs \in Seq(T) /\ Len(seqs) = n
      BY <2>1, <2>2
    <2>. QED  BY <2>3 DEF T
  <1>10. PICK joined : joined = Items(ranking)
    OBVIOUS
  <1>11. joined = FlattenSeq(seqs)
    BY <1>7, <1>10 DEF Items
  <1>12. joined \in Seq(Evid) /\ \E spot : MetAt(spot, joined, seqs, n)
    BY <1>9, <1>11, FlattenMeetsAll
  <1>13. PICK spot : MetAt(spot, joined, seqs, n)
    BY <1>12
  <1>14. PICK len \in Nat : len = Len(joined) /\ DOMAIN joined = 1..len
    BY <1>12
  <1>15. \A q, j : <<q, j>> \in Spots(seqs) <=> q \in 1..n /\ j \in 1..Len(all[o[q]].evidence)
    <2>1. \A q \in 1..n : Len(seqs[q]) \in Nat /\ seqs[q] = all[o[q]].evidence
      BY <1>8
    <2>. QED  BY <1>9, <2>1 DEF Spots
  <1>16. \A x \in Spots(seqs) : x = <<x[1], x[2]>> /\ x[1] \in 1..n
    BY <1>9 DEF Spots
  <1>. DEFINE Place(q, j) == at[o[q]][j]
              b == [k \in 1..len |-> Place(spot[k][1], spot[k][2])]
  <1>17. ASSUME NEW k \in 1..len
         PROVE  /\ b[k] \in DOMAIN ev /\ joined[k] = ev[b[k]]
                /\ spot[k] = <<spot[k][1], spot[k][2]>> /\ spot[k][1] \in 1..n
                /\ spot[k][2] \in 1..Len(all[o[spot[k][1]]].evidence)
    <2>1. /\ spot[k] \in Spots(seqs)
          /\ joined[k] = seqs[spot[k][1]][spot[k][2]]
      BY <1>13, <1>14 DEF MetAt
    <2>2. PICK q : q = spot[k][1]
      OBVIOUS
    <2>3. PICK j : j = spot[k][2]
      OBVIOUS
    <2>4. spot[k] = <<q, j>> /\ q \in 1..n /\ j \in 1..Len(all[o[q]].evidence)
      BY <1>15, <1>16, <2>1, <2>2, <2>3
    <2>5. seqs[q] = all[o[q]].evidence /\ o[q] \in 1..n
      BY <1>6, <1>8, <2>4
    <2>6. at[o[q]][j] \in DOMAIN ev /\ all[o[q]].evidence[j] = ev[at[o[q]][j]]
      BY <1>5, <2>4, <2>5 DEF Partition
    <2>7. b[k] = at[o[q]][j]
      BY <2>2, <2>3
    <2>8. joined[k] = ev[b[k]]
      BY <2>1, <2>2, <2>3, <2>5, <2>6, <2>7
    <2>. QED  BY <2>2, <2>3, <2>4, <2>6, <2>7, <2>8
  <1>18. ASSUME NEW p \in DOMAIN ev PROVE \E k \in 1..len : b[k] = p
    <2>1. PICK h \in 1..n : \E j \in 1..Len(all[h].evidence) : at[h][j] = p
      BY <1>5 DEF Partition
    <2>2. PICK j \in 1..Len(all[h].evidence) : at[h][j] = p
      BY <2>1
    <2>3. PICK q \in 1..n : o[q] = h
      BY <1>6
    <2>4. <<q, j>> \in Spots(seqs)
      BY <1>15, <2>3
    <2>5. PICK k \in 1..len : spot[k] = <<q, j>>
      <3>1. <<q, j>>[1] <= n
        OBVIOUS
      <3>. QED  BY <1>13, <1>14, <2>4, <3>1 DEF MetAt
    <2>6. b[k] = at[o[q]][j]
      BY <2>5
    <2>. QED  BY <2>2, <2>3, <2>6
  <1>19. ASSUME NEW k \in 1..len, NEW l \in 1..len, k < l
         PROVE  b[k] # b[l]
    <2>1. PICK q : q = spot[k][1]
      OBVIOUS
    <2>2. PICK j : j = spot[k][2]
      OBVIOUS
    <2>3. PICK r : r = spot[l][1]
      OBVIOUS
    <2>4. PICK i : i = spot[l][2]
      OBVIOUS
    <2>5. /\ q \in 1..n /\ j \in 1..Len(all[o[q]].evidence)
          /\ r \in 1..n /\ i \in 1..Len(all[o[r]].evidence)
      BY <1>17, <2>1, <2>2, <2>3, <2>4
    <2>6. b[k] = at[o[q]][j] /\ b[l] = at[o[r]][i]
      BY <2>1, <2>2, <2>3, <2>4
    <2>7. at[o[q]][j] = at[o[r]][i] => o[q] = o[r] /\ j = i
      <3>1. PICK x \in 1..n : x = o[q]
        BY <1>6, <2>5
      <3>2. PICK y \in 1..n : y = o[r]
        BY <1>6, <2>5
      <3>3. j \in 1..Len(all[x].evidence) /\ i \in 1..Len(all[y].evidence)
        BY <2>5, <3>1, <3>2
      <3>4. at[x][j] = at[y][i] => x = y /\ j = i
        BY <1>5, <3>3 DEF Partition
      <3>. QED  BY <3>1, <3>2, <3>4
    <2>8. o[q] = o[r] => q = r
      BY <1>6, <2>5
    <2>9. q < r \/ (q = r /\ j < i)
      BY <1>13, <1>14, <1>19, <2>1, <2>2, <2>3, <2>4 DEF MetAt, Sooner
    <2>10. ~(q = r /\ j = i)
      <3>1. q \in Int /\ r \in Int
        BY <2>5
      <3>2. j \in Int /\ i \in Int
        BY <2>5
      <3>. QED  BY <2>9, <3>1, <3>2
    <2>. QED  BY <2>6, <2>7, <2>8, <2>10
  <1>. HIDE DEF b
  <1>20. PICK m \in Nat : m = Len(ev) /\ DOMAIN ev = 1..m
    BY EvidenceType
  <1>21. /\ b \in [1..len -> 1..m]
         /\ \A p \in 1..m : \E k \in 1..len : b[k] = p
         /\ \A k \in 1..len : joined[k] = ev[b[k]]
    <2>1. b \in [1..len -> 1..m]
      <3>1. b = [k \in 1..len |-> Place(spot[k][1], spot[k][2])]
        BY DEF b
      <3>2. \A k \in 1..len : b[k] \in 1..m
        BY <1>17, <1>20
      <3>. HIDE DEF Place
      <3>. QED  BY <3>1, <3>2
    <2>. QED  BY <1>17, <1>18, <1>20, <2>1
  <1>22. Len(joined) = Len(ev) /\ \A e : Occurrences(e, joined) = Occurrences(e, ev)
    BY <1>14, <1>19, <1>20, <1>21, MatchedItems
  <1>. QED  BY <1>10, <1>22

\* Bucketing partitions the evidence: unless the cap drops hypotheses, every
\* item is in a finished ranking as often as the investigators reported it.
THEOREM RankerNothingLost == RankSpec => []NothingLost
  <1>1. RankerInv => NothingLost
    <2>. SUFFICES ASSUME RankerInv, pc = "done", TopN = 0 \/ HypothesisCount <= TopN
                  PROVE  /\ Len(Items(ranking)) = Len(ev)
                         /\ \A k \in DOMAIN ev :
                               Occurrences(ev[k], Items(ranking)) = Occurrences(ev[k], ev)
      BY DEF NothingLost
    <2>1. PICK order : Lists(order, Keys) /\ ranking = Ranked(order)
      BY DEF RankerInv
    <2>. QED  BY <2>1, RankedLosesNothing DEF RankerInv
  <1>. QED  BY <1>1, RankerInvariant, PTL
=============================================================================
