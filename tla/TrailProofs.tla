---------------------------- MODULE TrailProofs -----------------------------
(***************************************************************************)
(* Proofs about module Trail, for any conversations, any time, and recent  *)
(* activity of any length.                                                 *)
(***************************************************************************)
EXTENDS Trail, FiniteSetTheorems, TLAPS

-----------------------------------------------------------------------------
(* What is written down.                                                   *)

Stage == Writer \cup {"missed", "over"}

(* The interpreter was called no more often than it may be asked again.    *)
CallsOK ==
  \A c \in Convs :
    /\ stage[c] = "request" => calls[c] = 0
    /\ stage[c] = "reply" => calls[c] =< MAX_CLARIFICATION_ROUNDS

(* What a transaction leaves before its run is linked to an appointment,   *)
(* and what a reminder leaves.                                             *)
EntryOK(e) ==
  /\ e.source \in Source
  /\ e.by \in {"request", "reply", "book", "cancel"} => e.source \in {"step", "case"}
  /\ e.by = "remind" => e.source = "notice"

PageNames == {"none", "trace", "timeline", "activity", "overview"}

Queries == {"none", "steps", "calls", "runs", "audit", "notice", "job", "case", "cut",
            "upcoming", "missed", "open", "pending", "messages", "shown", "raised"}

Page == [name : PageNames, of : Convs \cup {None}, next : Queries,
         runs : SUBSET {"own", "cancelling", "recovery"}, got : SUBSET Entry,
         before : SUBSET Entry]

RecordsInv ==
  /\ TypeOK /\ page \in Page /\ IsFiniteSet(records) /\ IsFiniteSet(page.got)
  /\ CallsOK /\ \A e \in records : EntryOK(e)

-----------------------------------------------------------------------------
(* What has been read.                                                     *)

(* The runs that are linked were read before the steps, and each query has *)
(* found what there was when the page was asked for.                       *)
Linking == {"follow up", "cancelled", "sweep"}

(* The queries that are over when another one is to come.                  *)
TimelineRead(next) ==
  CASE next = "runs" -> {} [] next = "steps" -> {"runs"} [] next = "audit" -> {"runs", "step"}
    [] next = "notice" -> {"runs", "step", "audit"}
    [] next = "job" -> {"runs", "step", "audit", "notice"}
    [] OTHER -> {"runs", "step", "audit", "notice", "job"}

TimelineHas(e, read) ==
  /\ e.of = page.of /\ e.source \in {"step", "audit", "notice", "job"}
  /\ "runs" \in read /\ e.by \in Linking => RunOf(e) \in page.runs
  /\ e.source \in read /\ (e.source = "step" => RunOf(e) \in page.runs) => e \in page.got

TimelineInv ==
  page.name = "timeline" =>
    /\ page.of \in Convs /\ page.next \in {"runs", "steps", "audit", "notice", "job", "shown"}
    /\ \A e \in page.before : TimelineHas(e, TimelineRead(page.next))

(* What a query of recent activity has left out is no newer than Limit     *)
(* entries that it found.                                                  *)
Outdone(e, S) == \E T \in SUBSET S : Cardinality(T) = Limit /\ \A f \in T : f.at >= e.at

ActivityRead(next) ==
  CASE next = "audit" -> {} [] next = "notice" -> {"audit"} [] next = "case" -> {"audit", "notice"}
    [] next = "cut" -> {"audit", "notice", "case"} [] OTHER -> {}

ActivityInv ==
  page.name = "activity" =>
    /\ page.next \in {"audit", "notice", "case", "cut", "shown"}
    /\ \A e \in page.before : e.source \in {"audit", "notice", "case"}
    /\ \A e \in page.before \ page.got :
         e.source \in ActivityRead(page.next) => Outdone(e, page.got)

(* Messages are counted last.                                              *)
OverviewInv == Shown("overview") => Of("notice") \subseteq page.got

PagesInv == TimelineInv /\ ActivityInv /\ ActivityIsNewest /\ OverviewInv

-----------------------------------------------------------------------------
(* The newest entries of a set.                                            *)

LEMMA AtMostLimitIs ==
  ASSUME NEW S, IsFiniteSet(S), NEW T \in AtMostLimit(S), T # S
  PROVE  Cardinality(T) = Limit
<1>1. T \in SUBSET S /\ Cardinality(T) = IF Cardinality(S) < Limit THEN Cardinality(S) ELSE Limit
  BY DEF AtMostLimit
<1>2. Cardinality(S) # Cardinality(T)
  BY <1>1, FS_Subset
<1> QED
  BY <1>1, <1>2

LEMMA NewestIs ==
  ASSUME NEW S \in SUBSET Entry, IsFiniteSet(S), NEW T \in Newest(S)
  PROVE  /\ T \subseteq S /\ IsFiniteSet(T)
         /\ \A e \in S \ T : Cardinality(T) = Limit /\ \A f \in T : f.at >= e.at
<1>1. T \in AtMostLimit(S) /\ \A x \in S \ T, y \in T : x.at =< y.at
  BY DEF Newest
<1>2. T \subseteq S
  BY <1>1 DEF AtMostLimit
<1>3. IsFiniteSet(T)
  BY <1>2, FS_Subset
<1>4. ASSUME NEW e \in S \ T PROVE Cardinality(T) = Limit
  BY <1>1, <1>4, AtMostLimitIs
<1>5. ASSUME NEW e \in S \ T, NEW f \in T PROVE f.at >= e.at
  <2>1. e.at =< f.at /\ e.at \in Nat /\ f.at \in Nat
    BY <1>1, <1>2, <1>5 DEF Entry
  <2> QED
    BY <2>1
<1> QED
  BY <1>2, <1>3, <1>4, <1>5

LEMMA NewestOutdoes ==
  ASSUME NEW S \in SUBSET Entry, IsFiniteSet(S), NEW T \in Newest(S), NEW e \in S \ T
  PROVE  Outdone(e, T)
BY NewestIs DEF Outdone

LEMMA OutdoneGrows ==
  ASSUME NEW e, NEW S, NEW T, S \subseteq T, Outdone(e, S)
  PROVE  Outdone(e, T)
BY DEF Outdone

(* What is cut off the list, or was outdone by something in it, is no      *)
(* newer than what stays.                                                  *)
LEMMA CutIs ==
  ASSUME NEW S \in SUBSET Entry, IsFiniteSet(S), NEW T \in Newest(S),
         NEW e \in Entry, e \notin T, e \in S \/ Outdone(e, S)
  PROVE  Cardinality(T) = Limit /\ \A f \in T : f.at >= e.at
<1>1. CASE e \in S
  BY <1>1, NewestIs
<1>2. CASE Outdone(e, S)
  <2>1. PICK U \in SUBSET S : Cardinality(U) = Limit /\ \A f \in U : f.at >= e.at
    BY <1>2 DEF Outdone
  <2>2. T \subseteq S /\ IsFiniteSet(T) /\ IsFiniteSet(U)
    BY <2>1, NewestIs, FS_Subset
  <2>3. Cardinality(T) = Limit
    <3>1. CASE T = S
      <4>1. Cardinality(T) = IF Cardinality(S) < Limit THEN Cardinality(S) ELSE Limit
        BY DEF Newest, AtMostLimit
      <4>2. Limit =< Cardinality(S) /\ Cardinality(S) \in Nat
        BY <2>1, FS_Subset, FS_CardinalityType
      <4>3. Limit \in Nat
        BY TrailConstants
      <4> QED
        BY <4>1, <4>2, <4>3
    <3>2. CASE T # S
      BY <3>2, AtMostLimitIs DEF Newest
    <3> QED
      BY <3>1, <3>2
  <2>4. ASSUME NEW f \in T PROVE f.at >= e.at
    <3>1. CASE U \subseteq T
      <4>1. U = T
        BY <2>1, <2>2, <2>3, <3>1, FS_Subset
      <4> QED
        BY <2>1, <2>4, <4>1
    <3>2. CASE ~ (U \subseteq T)
      <4>1. PICK u \in U : u \notin T
        BY <3>2
      <4>2. u \in S \ T /\ u.at >= e.at /\ f.at >= u.at
        BY <2>1, <2>4, <4>1, NewestIs
      <4>3. u.at \in Nat /\ e.at \in Nat /\ f.at \in Nat
        BY <2>2, <2>4, <4>2 DEF Entry
      <4> QED
        BY <4>2, <4>3
    <3> QED
      BY <3>1, <3>2
  <2> QED
    BY <2>3, <2>4
<1> QED
  BY <1>1, <1>2

LEMMA ResolutionsAre ==
  ASSUME RecordsInv, NEW S \in SUBSET records
  PROVE  Resolutions(S) \subseteq Entry /\ IsFiniteSet(Resolutions(S))
<1> DEFINE R == {x \in S : solved[x.of] # None}
           f == [e \in R |-> [e EXCEPT !.source = "resolution", !.at = solved[e.of]]]
<1>1. \A e \in R : e \in Entry /\ solved[e.of] \in Nat
  BY DEF RecordsInv, TypeOK, Entry
<1>2. Resolutions(S) \subseteq Entry
  BY <1>1 DEF Resolutions, Entry
<1>3. IsFiniteSet(S)
  BY FS_Subset DEF RecordsInv
<1>4. IsFiniteSet(R)
  BY <1>3, FS_Subset
<1>5. f \in Surjection(R, Resolutions(S))
  BY DEF Surjection, Resolutions
<1> QED
  BY <1>2, <1>4, <1>5, FS_Surjection

-----------------------------------------------------------------------------
(* Transactions.                                                           *)

LEMMA EntriesAre ==
  ASSUME RecordsInv, NEW c \in Convs, NEW by \in Writer, NEW sources \in SUBSET Source,
         NEW began \in 0 .. clock
  PROVE  /\ Entries(c, by, sources, began) \subseteq Entry
         /\ IsFiniteSet(Entries(c, by, sources, began))
<1> DEFINE f == [s \in sources |-> [of |-> c, by |-> by, source |-> s, at |-> began]]
<1>1. IsFiniteSet(Source)
  <2>1. Source = ((({"step"} \cup {"audit"}) \cup {"notice"}) \cup {"job"}) \cup {"case"}
    BY DEF Source
  <2>2. IsFiniteSet({"step"} \cup {"audit"})
    BY FS_Singleton, FS_Union
  <2>3. IsFiniteSet(({"step"} \cup {"audit"}) \cup {"notice"})
    BY <2>2, FS_Singleton, FS_Union
  <2>4. IsFiniteSet((({"step"} \cup {"audit"}) \cup {"notice"}) \cup {"job"})
    BY <2>3, FS_Singleton, FS_Union
  <2> QED
    BY <2>1, <2>4, FS_Singleton, FS_Union
<1>2. IsFiniteSet(sources)
  BY <1>1, FS_Subset
<1>3. f \in Surjection(sources, Entries(c, by, sources, began))
  BY DEF Surjection, Entries
<1>4. IsFiniteSet(Entries(c, by, sources, began))
  BY <1>2, <1>3, FS_Surjection
<1>5. began \in Nat
  BY DEF RecordsInv, TypeOK
<1>6. Entries(c, by, sources, began) \subseteq Entry
  BY <1>5 DEF Entries, Entry
<1> QED
  BY <1>4, <1>6

(* What each transaction needs to show.                                    *)
LEMMA CommitRecords ==
  ASSUME RecordsInv, NEW c \in Convs, NEW by \in Writer, NEW sources \in SUBSET Source,
         NEW then \in Stage, Commit(c, by, sources, then),
         by \in {"request", "reply", "book", "cancel"} => sources \subseteq {"step", "case"},
         by = "remind" => sources \subseteq {"notice"},
         calls' \in [Convs -> 0 .. MAX_CLARIFICATION_ROUNDS + 1],
         \A d \in Convs : d # c => calls'[d] = calls[d],
         then = "request" => calls'[c] = 0,
         then = "reply" => calls'[c] =< MAX_CLARIFICATION_ROUNDS,
         appt' \in [Convs -> {"FREE", "BOOKED", "CANCELLED", "NO_SHOW"}],
         job' \in [Convs -> {"NONE", "PENDING", "DONE", "FAILED_RETRYABLE"}]
  PROVE  RecordsInv'
<1>1. PICK began \in 0 .. clock : records' = records \cup Entries(c, by, sources, began)
  BY DEF Commit
<1> DEFINE new == Entries(c, by, sources, began)
<1>2. new \subseteq Entry /\ IsFiniteSet(new)
  BY EntriesAre
<1>3. IsFiniteSet(records')
  BY <1>1, <1>2, FS_Union DEF RecordsInv
<1>4. UNCHANGED <<clock, solved, page>> /\ stage' = [stage EXCEPT ![c] = then]
  BY DEF Commit
<1>5. TypeOK'
  BY <1>1, <1>2, <1>4 DEF RecordsInv, TypeOK, Stage
<1>6. \A e \in records' : EntryOK(e)
  <2>1. \A e \in new : e.by = by /\ e.source \in sources
    BY DEF Entries
  <2> QED
    BY <1>1, <2>1 DEF RecordsInv, EntryOK
<1>7. CallsOK'
  <2> SUFFICES ASSUME NEW d \in Convs
               PROVE  /\ stage'[d] = "request" => calls'[d] = 0
                      /\ stage'[d] = "reply" => calls'[d] =< MAX_CLARIFICATION_ROUNDS
    BY DEF CallsOK
  <2>1. CASE d = c
    <3>1. stage'[d] = then
      BY <1>4, <2>1 DEF RecordsInv, TypeOK
    <3> QED
      BY <2>1, <3>1
  <2>2. CASE d # c
    <3>1. stage'[d] = stage[d] /\ calls'[d] = calls[d]
      BY <1>4, <2>2 DEF RecordsInv, TypeOK
    <3> QED
      BY <3>1 DEF RecordsInv, CallsOK
  <2> QED
    BY <2>1, <2>2
<1>8. page' \in Page /\ IsFiniteSet(page'.got)
  BY <1>4 DEF RecordsInv
<1> QED
  BY <1>3, <1>5, <1>6, <1>7, <1>8 DEF RecordsInv

(* Transactions that call no interpreter.                                  *)
LEMMA OtherCommitRecords ==
  ASSUME RecordsInv, NEW c \in Convs, NEW by \in Writer, NEW sources \in SUBSET Source,
         NEW then \in Stage, Commit(c, by, sources, then),
         by \in {"request", "reply", "book", "cancel"} => sources \subseteq {"step", "case"},
         by = "remind" => sources \subseteq {"notice"},
         calls' = calls, then \in {"request", "reply"} => then = stage[c],
         appt' \in [Convs -> {"FREE", "BOOKED", "CANCELLED", "NO_SHOW"}],
         job' \in [Convs -> {"NONE", "PENDING", "DONE", "FAILED_RETRYABLE"}]
  PROVE  RecordsInv'
<1>1. /\ calls' \in [Convs -> 0 .. MAX_CLARIFICATION_ROUNDS + 1]
      /\ then = "request" => calls'[c] = 0
      /\ then = "reply" => calls'[c] =< MAX_CLARIFICATION_ROUNDS
      /\ \A d \in Convs : d # c => calls'[d] = calls[d]
  BY DEF RecordsInv, TypeOK, CallsOK
<1> QED
  BY <1>1, CommitRecords

LEMMA InterpretRecords ==
  ASSUME RecordsInv, NEW c \in Convs, Interpret(c)
  PROVE  RecordsInv'
<1>1. /\ stage[c] \in {"request", "reply"} /\ UNCHANGED <<appt, job>>
      /\ calls[c] \in 0 .. MAX_CLARIFICATION_ROUNDS + 1 /\ MAX_CLARIFICATION_ROUNDS \in Nat
      /\ calls[c] =< MAX_CLARIFICATION_ROUNDS
      /\ stage[c] = "request" => calls[c] = 0
  BY TrailConstants DEF Interpret, RecordsInv, TypeOK, CallsOK
<1>2. /\ stage[c] \in Writer /\ "over" \in Stage /\ "book" \in Stage /\ "reply" \in Stage
      /\ {"step"} \in SUBSET Source /\ {"step", "case"} \in SUBSET Source
  BY <1>1 DEF Writer, Stage, Source
<1>3. /\ appt' \in [Convs -> {"FREE", "BOOKED", "CANCELLED", "NO_SHOW"}]
      /\ job' \in [Convs -> {"NONE", "PENDING", "DONE", "FAILED_RETRYABLE"}]
  BY <1>1 DEF RecordsInv, TypeOK
<1>4. CASE Commit(c, stage[c], {"step"}, "over") /\ UNCHANGED calls
  BY <1>1, <1>2, <1>3, <1>4, OtherCommitRecords
<1>5. ASSUME calls' = [calls EXCEPT ![c] = @ + 1], NEW sources \in {{"step"}, {"step", "case"}},
             NEW then \in {"over", "book", "reply"}, Commit(c, stage[c], sources, then),
             then = "reply" => calls[c] < MAX_CLARIFICATION_ROUNDS
      PROVE  RecordsInv'
  <2>1. /\ calls' \in [Convs -> 0 .. MAX_CLARIFICATION_ROUNDS + 1] /\ calls'[c] = calls[c] + 1
        /\ \A d \in Convs : d # c => calls'[d] = calls[d]
    <3>1. calls[c] + 1 \in 0 .. MAX_CLARIFICATION_ROUNDS + 1
      BY <1>1
    <3> QED
      BY <1>5, <3>1 DEF RecordsInv, TypeOK
  <2>2. then = "reply" => calls'[c] =< MAX_CLARIFICATION_ROUNDS
    BY <1>1, <1>5, <2>1
  <2>3. /\ sources \in SUBSET Source /\ sources \subseteq {"step", "case"}
        /\ then \in Stage /\ then # "request"
    BY <1>2, <1>5 DEF Source
  <2>4. stage[c] # "remind"
    BY <1>1
  <2> DEFINE by == stage[c]
  <2>5. by \in Writer /\ Commit(c, by, sources, then) /\ by # "remind"
    BY <1>2, <1>5, <2>4
  <2> HIDE DEF by
  <2> QED
    BY <1>3, <2>1, <2>2, <2>3, <2>5, CommitRecords
<1> QED
  BY <1>4, <1>5 DEF Interpret

LEMMA WritingRecords ==
  ASSUME RecordsInv, NEW c \in Convs,
         \/ Interpret(c) \/ Book(c) \/ FollowUp(c) \/ Cancel(c) \/ Cancelled(c)
         \/ Sweep(c) \/ Remind(c)
  PROVE  RecordsInv' /\ UNCHANGED page
<1>1. /\ appt \in [Convs -> {"FREE", "BOOKED", "CANCELLED", "NO_SHOW"}]
      /\ job \in [Convs -> {"NONE", "PENDING", "DONE", "FAILED_RETRYABLE"}]
      /\ stage[c] \in Stage
  BY DEF RecordsInv, TypeOK, Stage
<1>2. CASE Interpret(c)
  BY <1>2, InterpretRecords DEF Interpret, Commit
<1>3. CASE Book(c)
  BY <1>1, <1>3, OtherCommitRecords DEF Book, Commit, Writer, Stage, Source
<1>4. CASE FollowUp(c)
  BY <1>1, <1>4, OtherCommitRecords DEF FollowUp, Commit, Writer, Stage, Source
<1>5. CASE Cancel(c)
  <2>1. CASE Commit(c, "cancel", {"step"}, "cancelled") /\ appt' = [appt EXCEPT ![c] = "CANCELLED"]
    BY <1>1, <1>5, <2>1, OtherCommitRecords DEF Cancel, Commit, Writer, Stage, Source
  <2>2. CASE Commit(c, "cancel", {"step", "case"}, "missed") /\ UNCHANGED appt
    BY <1>1, <1>5, <2>2, OtherCommitRecords DEF Cancel, Commit, Writer, Stage, Source
  <2> QED
    BY <1>5, <2>1, <2>2 DEF Cancel
<1>6. CASE Cancelled(c)
  BY <1>1, <1>6, OtherCommitRecords DEF Cancelled, Commit, Writer, Stage, Source
<1>7. CASE Sweep(c)
  BY <1>1, <1>7, OtherCommitRecords DEF Sweep, Commit, Writer, Stage, Source
<1>8. CASE Remind(c)
  BY <1>1, <1>8, OtherCommitRecords DEF Remind, Commit, Writer, Stage, Source
<1> QED
  BY <1>2, <1>3, <1>4, <1>5, <1>6, <1>7, <1>8

LEMMA ResolveRecords ==
  ASSUME RecordsInv, NEW c \in Convs, Resolve(c)
  PROVE  RecordsInv' /\ UNCHANGED page
<1>1. solved' \in [Convs -> Nat \cup {None}]
  BY DEF Resolve, RecordsInv, TypeOK
<1> QED
  BY <1>1 DEF Resolve, RecordsInv, TypeOK, CallsOK

-----------------------------------------------------------------------------
(* Queries.                                                                *)

(* A query adds entries to a page, and that is all.                        *)
LEMMA PageRecords ==
  ASSUME RecordsInv, UNCHANGED <<clock, writing>>, page' \in Page, IsFiniteSet(page'.got),
         page'.before \subseteq records
  PROVE  RecordsInv'
BY DEF RecordsInv, TypeOK, CallsOK, writing, Page

LEMMA QueryRecords ==
  ASSUME RecordsInv, NEW name, NEW this, NEW next \in Queries, NEW found \in SUBSET Entry,
         IsFiniteSet(found), Query(name, this, next, found)
  PROVE  RecordsInv' /\ page' = [page EXCEPT !.next = next, !.got = @ \cup found]
<1>1. page' = [page EXCEPT !.next = next, !.got = @ \cup found] /\ UNCHANGED <<clock, writing>>
  BY DEF Query
<1>2. page \in Page /\ page.before \subseteq records /\ IsFiniteSet(page.got)
  BY DEF RecordsInv, TypeOK
<1>3. page' \in Page /\ page'.got = page.got \cup found /\ page'.before = page.before
  BY <1>1, <1>2 DEF Page
<1>4. IsFiniteSet(page'.got)
  BY <1>2, <1>3, FS_Union
<1> QED
  BY <1>1, <1>2, <1>3, <1>4, PageRecords

(* What a query of the rows themselves finds.                              *)
LEMMA FoundIs ==
  ASSUME RecordsInv, NEW S \in SUBSET records
  PROVE  S \subseteq Entry /\ IsFiniteSet(S)
BY FS_Subset DEF RecordsInv, TypeOK

LEMMA CountedIs ==
  ASSUME NEW count \in {"upcoming", "missed", "open", "pending", "messages"}
  PROVE  Counted(count) \subseteq records
<1>1. CASE count = "upcoming"
  BY <1>1 DEF Counted, Of
<1>2. CASE count = "missed"
  BY <1>2 DEF Counted, Of
<1>3. CASE count = "open"
  BY <1>3 DEF Counted, Of
<1>4. CASE count = "pending"
  BY <1>4 DEF Counted, Of
<1>5. CASE count = "messages"
  BY <1>5 DEF Counted, Of
<1> QED
  BY <1>1, <1>2, <1>3, <1>4, <1>5

LEMMA OpenRecords ==
  ASSUME RecordsInv, NEW name \in {"trace", "timeline", "activity", "overview"},
         NEW c \in Convs \cup {None}, Open(name, c)
  PROVE  RecordsInv'
<1>1. Matter(name, c) \subseteq records
  <2>1. CASE name = "trace"
    BY <2>1 DEF Matter
  <2>2. CASE name = "timeline"
    BY <2>2 DEF Matter
  <2>3. CASE name = "activity"
    BY <2>3 DEF Matter
  <2>4. CASE name = "overview"
    BY <2>4 DEF Matter, Of
  <2> QED
    BY <2>1, <2>2, <2>3, <2>4
<1>2. FirstQuery[name] \in Queries
  BY DEF FirstQuery, Counts, Queries
<1>3. page' \in Page
  BY <1>1, <1>2 DEF Open, Page, PageNames, RecordsInv, TypeOK
<1>4. page'.got = {} /\ page'.before \subseteq records /\ UNCHANGED <<clock, writing>>
  BY <1>1 DEF Open
<1> QED
  BY <1>3, <1>4, PageRecords, FS_EmptySet

LEMMA ReadTraceRecords ==
  ASSUME RecordsInv, ReadTrace
  PROVE  RecordsInv'
<1> DEFINE found == {e \in Of("step") : /\ e.of = page.of
                                        /\ e.by \in {"request", "reply", "book", "follow up"}}
<1>1. found \subseteq records
  BY DEF Of
<1>2. found \subseteq Entry /\ IsFiniteSet(found) /\ {} \subseteq Entry /\ IsFiniteSet({})
  BY <1>1, FoundIs, FS_EmptySet
<1>3. \/ Query("trace", "steps", "calls", found)
      \/ Query("trace", "calls", IF OneOrNone(calls[page.of]) THEN "shown" ELSE "raised", {})
  BY DEF ReadTrace
<1>4. /\ "calls" \in Queries
      /\ (IF OneOrNone(calls[page.of]) THEN "shown" ELSE "raised") \in Queries
  BY DEF Queries
<1> HIDE DEF found
<1> QED
  BY <1>2, <1>3, <1>4, QueryRecords

LEMMA ReadTimelineRecords ==
  ASSUME RecordsInv, ReadTimeline
  PROVE  RecordsInv'
<1> DEFINE c == page.of
           steps == {e \in About(c, {"step"}) : RunOf(e) \in page.runs}
<1>1. /\ steps \subseteq Entry /\ IsFiniteSet(steps)
      /\ About(c, {"audit"}) \subseteq Entry /\ IsFiniteSet(About(c, {"audit"}))
      /\ About(c, {"notice"}) \subseteq Entry /\ IsFiniteSet(About(c, {"notice"}))
      /\ About(c, {"job"}) \subseteq Entry /\ IsFiniteSet(About(c, {"job"}))
  <2>1. steps \subseteq records /\ About(c, {"audit"}) \subseteq records
        /\ About(c, {"notice"}) \subseteq records /\ About(c, {"job"}) \subseteq records
    BY DEF About
  <2> QED
    BY <2>1, FoundIs
<1>2. {"steps", "audit", "notice", "job", "shown"} \subseteq Queries
  BY DEF Queries
<1>3. CASE /\ page' = [page EXCEPT !.next = "steps", !.runs = RunsOf(c)]
           /\ UNCHANGED <<clock, writing>>
  <2>1. RunsOf(c) \subseteq {"own", "cancelling", "recovery"}
    BY DEF RunsOf, RunOf
  <2>2. page \in Page /\ IsFiniteSet(page.got) /\ page.before \subseteq records
    BY DEF RecordsInv, TypeOK
  <2>3. page' \in Page /\ page'.got = page.got /\ page'.before = page.before
    BY <1>2, <1>3, <2>1, <2>2 DEF Page
  <2> QED
    BY <1>3, <2>2, <2>3, PageRecords
<1>4. CASE Query("timeline", "steps", "audit", steps)
  <2> HIDE DEF steps
  <2> QED
    BY <1>1, <1>2, <1>4, QueryRecords
<1>5. CASE Query("timeline", "audit", "notice", About(c, {"audit"}))
  BY <1>1, <1>2, <1>5, QueryRecords
<1>6. CASE Query("timeline", "notice", "job", About(c, {"notice"}))
  BY <1>1, <1>2, <1>6, QueryRecords
<1>7. CASE Query("timeline", "job", "shown", About(c, {"job"}))
  BY <1>1, <1>2, <1>7, QueryRecords
<1> QED
  BY <1>3, <1>4, <1>5, <1>6, <1>7 DEF ReadTimeline

LEMMA ReadActivityRecords ==
  ASSUME RecordsInv, ReadActivity
  PROVE  RecordsInv'
<1>1. {"notice", "case", "cut", "shown"} \subseteq Queries
  BY DEF Queries
<1>2. ASSUME NEW source, NEW T \in Newest(Of(source))
      PROVE  T \subseteq records /\ T \subseteq Entry /\ IsFiniteSet(T)
  <2>1. Of(source) \subseteq records /\ T \subseteq Of(source)
    BY DEF Of, Newest, AtMostLimit
  <2> QED
    BY <2>1, FoundIs
<1>3. CASE \E T \in Newest(Of("audit")) : Query("activity", "audit", "notice", T)
  BY <1>1, <1>2, <1>3, QueryRecords
<1>4. CASE \E T \in Newest(Of("notice")) : Query("activity", "notice", "case", T)
  BY <1>1, <1>2, <1>4, QueryRecords
<1>5. CASE \E T \in Newest(Of("case")) :
             Query("activity", "case", "cut", T \cup Resolutions(T))
  <2>1. PICK T \in Newest(Of("case")) : Query("activity", "case", "cut", T \cup Resolutions(T))
    BY <1>5
  <2>2. T \cup Resolutions(T) \subseteq Entry /\ IsFiniteSet(T \cup Resolutions(T))
    BY <1>2, ResolutionsAre, FS_Union
  <2> QED
    BY <1>1, <2>1, <2>2, QueryRecords
<1>6. CASE /\ \E T \in Newest(page.got) : page' = [page EXCEPT !.next = "shown", !.got = T]
           /\ UNCHANGED <<clock, writing>>
  <2>1. PICK T \in Newest(page.got) : page' = [page EXCEPT !.next = "shown", !.got = T]
    BY <1>6
  <2>2. page \in Page /\ IsFiniteSet(page.got) /\ page.before \subseteq records
    BY DEF RecordsInv, TypeOK
  <2>3. T \subseteq page.got /\ IsFiniteSet(T)
    BY <2>2, FS_Subset DEF Newest, AtMostLimit
  <2>4. page' \in Page /\ page'.got = T /\ page'.before = page.before
    BY <1>1, <2>1, <2>2, <2>3 DEF Page
  <2> QED
    BY <1>6, <2>2, <2>3, <2>4, PageRecords
<1> QED
  BY <1>3, <1>4, <1>5, <1>6 DEF ReadActivity

LEMMA ReadOverviewRecords ==
  ASSUME RecordsInv, ReadOverview
  PROVE  RecordsInv'
<1>1. PICK i \in 1 .. Len(Counts) :
        Query("overview", Counts[i], IF i = Len(Counts) THEN "shown" ELSE Counts[i + 1],
              Counted(Counts[i]))
  BY DEF ReadOverview
<1>2. /\ Counts[i] \in {"upcoming", "missed", "open", "pending", "messages"}
      /\ (IF i = Len(Counts) THEN "shown" ELSE Counts[i + 1]) \in Queries
  BY DEF Counts, Queries
<1>3. Counted(Counts[i]) \subseteq records
  BY <1>2, CountedIs
<1>4. Counted(Counts[i]) \subseteq Entry /\ IsFiniteSet(Counted(Counts[i]))
  BY <1>3, FoundIs
<1> QED
  BY <1>1, <1>2, <1>4, QueryRecords

-----------------------------------------------------------------------------
(* What the queries of a page have found.                                  *)

(* Nothing is said of the rows but when a page is shown, or has raised.    *)
LEMMA QuietPages ==
  ASSUME PagesInv, UNCHANGED page, page.next \notin {"shown", "raised"}
  PROVE  PagesInv'
BY DEF PagesInv, TimelineInv, TimelineHas, ActivityInv, ActivityIsNewest, OverviewInv,
       Shown

LEMMA ClosePages ==
  ASSUME Close
  PROVE  RecordsInv => RecordsInv' /\ PagesInv'
<1>1. page' = NoPage /\ UNCHANGED <<clock, writing>>
  BY DEF Close
<1>2. page' \in Page /\ page'.got = {} /\ page'.before = {}
  BY <1>1 DEF NoPage, Page, PageNames, Queries
<1>3. PagesInv'
  BY <1>1 DEF NoPage, PagesInv, TimelineInv, ActivityInv, ActivityIsNewest, OverviewInv,
              Shown
<1> QED
  BY <1>1, <1>2, <1>3, PageRecords, FS_EmptySet

LEMMA OpenPages ==
  ASSUME RecordsInv, NEW name \in {"trace", "timeline", "activity", "overview"},
         NEW c \in Convs \cup {None}, Open(name, c), name \in {"trace", "timeline"} => c \in Convs
  PROVE  PagesInv'
<1>1. page' = [name |-> name, of |-> c, next |-> FirstQuery[name], runs |-> {},
               got |-> {}, before |-> Matter(name, c)]
  BY DEF Open
<1>2. FirstQuery[name] = CASE name = "trace" -> "steps" [] name = "timeline" -> "runs"
                           [] name = "activity" -> "audit" [] name = "overview" -> "upcoming"
  BY DEF FirstQuery, Counts
<1>3. page'.next \notin {"shown", "raised"}
  BY <1>1, <1>2
<1>4. ActivityIsNewest' /\ OverviewInv'
  BY <1>1, <1>3 DEF ActivityIsNewest, OverviewInv, Shown
<1>5. TimelineInv'
  <2> SUFFICES ASSUME name = "timeline"
               PROVE  /\ c \in Convs /\ page'.next = "runs"
                      /\ \A e \in page'.before : TimelineHas(e, TimelineRead("runs"))'
    BY <1>1 DEF TimelineInv
  <2>1. page'.next = "runs" /\ TimelineRead("runs") = {} /\ page'.of = c
    BY <1>1, <1>2 DEF TimelineRead
  <2>2. ASSUME NEW e \in page'.before
        PROVE  e.of = c /\ e.source \in {"step", "audit", "notice", "job"}
    <3>1. e \in records /\ e.of = c /\ e.source # "case"
      BY <1>1, <2>2 DEF Matter
    <3> QED
      BY <3>1 DEF RecordsInv, EntryOK, Source
  <2> QED
    BY <2>1, <2>2 DEF TimelineHas
<1>6. ActivityInv'
  <2> SUFFICES ASSUME name = "activity"
               PROVE  /\ page'.next = "audit"
                      /\ \A e \in page'.before : e.source \in {"audit", "notice", "case"}
    BY <1>1 DEF ActivityInv, ActivityRead
  <2>1. ASSUME NEW e \in page'.before
        PROVE  e.source \in {"audit", "notice", "case"}
    <3>1. e \in records /\ e.source \notin {"step", "job"}
      BY <1>1, <2>1 DEF Matter
    <3> QED
      BY <3>1 DEF RecordsInv, EntryOK, Source
  <2> QED
    BY <1>1, <1>2, <2>1
<1> QED
  BY <1>4, <1>5, <1>6 DEF PagesInv

(* A page of one kind says nothing of the others.                          *)
LEMMA TracePages ==
  ASSUME page'.name = "trace"
  PROVE  PagesInv'
BY DEF PagesInv, TimelineInv, ActivityInv, ActivityIsNewest, OverviewInv, Shown

LEMMA TimelinePages ==
  ASSUME page'.name = "timeline", TimelineInv'
  PROVE  PagesInv'
BY DEF PagesInv, TimelineInv, ActivityInv, ActivityIsNewest, OverviewInv, Shown

LEMMA ActivityPages ==
  ASSUME page'.name = "activity", ActivityInv', ActivityIsNewest'
  PROVE  PagesInv'
BY DEF PagesInv, TimelineInv, ActivityInv, OverviewInv, Shown

LEMMA OverviewPages ==
  ASSUME page'.name = "overview", page'.next # "raised", OverviewInv'
  PROVE  PagesInv'
BY DEF PagesInv, TimelineInv, ActivityInv, ActivityIsNewest, OverviewInv, Shown

LEMMA ReadTracePages ==
  ASSUME RecordsInv, ReadTrace
  PROVE  PagesInv'
<1>1. page'.name = "trace"
  BY DEF ReadTrace, Query, RecordsInv, Page
<1> QED
  BY <1>1, TracePages

(* One query of the timeline.                                              *)
LEMMA TimelineStep ==
  ASSUME page.of \in Convs, page'.name = "timeline", page'.of = page.of,
         page'.before = page.before, NEW next \in {"steps", "audit", "notice", "job", "shown"},
         page'.next = next, \A e \in page.before : TimelineHas(e, TimelineRead(next))'
  PROVE  PagesInv'
BY TimelinePages DEF TimelineInv

LEMMA ReadTimelinePages ==
  ASSUME RecordsInv, PagesInv, ReadTimeline
  PROVE  PagesInv'
<1> DEFINE c == page.of
<1>1. /\ page \in Page /\ page.name = "timeline" /\ page.before \subseteq records
      /\ c \in Convs /\ \A e \in page.before : TimelineHas(e, TimelineRead(page.next))
  BY DEF ReadTimeline, Query, RecordsInv, TypeOK, PagesInv, TimelineInv
<1>2. CASE page.next = "runs" /\ page' = [page EXCEPT !.next = "steps", !.runs = RunsOf(c)]
  <2>1. /\ page'.name = "timeline" /\ page'.of = c /\ page'.before = page.before
        /\ page'.next = "steps" /\ page'.runs = RunsOf(c) /\ page'.got = page.got
    BY <1>1, <1>2 DEF Page
  <2>2. TimelineRead("steps") = {"runs"}
    BY DEF TimelineRead
  <2>3. ASSUME NEW e \in page.before
        PROVE  TimelineHas(e, {"runs"})'
    <3>1. e \in records /\ e.of = c /\ e.source \in {"step", "audit", "notice", "job"}
      BY <1>1, <2>3 DEF TimelineHas
    <3>2. e.by \in Linking => RunOf(e) \in RunsOf(c)
      BY <3>1 DEF Linking, RunsOf
    <3> QED
      BY <2>1, <3>1, <3>2 DEF TimelineHas
  <2> QED
    BY <1>1, <2>1, <2>2, <2>3, TimelineStep
<1>3. ASSUME NEW this, NEW source \in {"step", "audit", "notice", "job"}, NEW found, NEW next,
             Query("timeline", this, next, found), next \in {"audit", "notice", "job", "shown"},
             TimelineRead(next) = TimelineRead(this) \cup {source},
             \A e \in About(c, {source}) :
               (source = "step" => RunOf(e) \in page.runs) => e \in found
      PROVE  PagesInv'
  <2>1. /\ page'.name = "timeline" /\ page'.of = c /\ page'.before = page.before
        /\ page'.next = next /\ page'.runs = page.runs /\ page'.got = page.got \cup found
        /\ page.next = this
    BY <1>1, <1>3 DEF Page, Query
  <2>2. ASSUME NEW e \in page.before
        PROVE  TimelineHas(e, TimelineRead(next))'
    <3>1. TimelineHas(e, TimelineRead(this)) /\ e \in records
      BY <1>1, <2>1, <2>2
    <3>2. e.source = source => e \in About(c, {source})
      BY <3>1 DEF About, TimelineHas
    <3>3. "runs" \in TimelineRead(next) => "runs" \in TimelineRead(this)
      BY <1>3
    <3> QED
      BY <1>3, <2>1, <3>1, <3>2, <3>3 DEF TimelineHas
  <2> QED
    BY <1>1, <1>3, <2>1, <2>2, TimelineStep
<1>4. CASE Query("timeline", "steps", "audit", {e \in About(c, {"step"}) : RunOf(e) \in page.runs})
  <2>1. TimelineRead("audit") = TimelineRead("steps") \cup {"step"}
    BY DEF TimelineRead
  <2> QED
    BY <1>3, <1>4, <2>1
<1>5. CASE Query("timeline", "audit", "notice", About(c, {"audit"}))
  <2>1. TimelineRead("notice") = TimelineRead("audit") \cup {"audit"}
    BY DEF TimelineRead
  <2> QED
    BY <1>3, <1>5, <2>1
<1>6. CASE Query("timeline", "notice", "job", About(c, {"notice"}))
  <2>1. TimelineRead("job") = TimelineRead("notice") \cup {"notice"}
    BY DEF TimelineRead
  <2> QED
    BY <1>3, <1>6, <2>1
<1>7. CASE Query("timeline", "job", "shown", About(c, {"job"}))
  <2>1. TimelineRead("shown") = TimelineRead("job") \cup {"job"}
    BY DEF TimelineRead
  <2> QED
    BY <1>3, <1>7, <2>1
<1> QED
  BY <1>2, <1>4, <1>5, <1>6, <1>7 DEF ReadTimeline

(* One query of the rows of one kind.                                      *)
LEMMA ActivityStep ==
  ASSUME RecordsInv, PagesInv, NEW source, NEW this \in {"audit", "notice", "case"}, NEW next,
         NEW T \in Newest(Of(source)), NEW found, T \subseteq found,
         Query("activity", this, next, found), next \in {"notice", "case", "cut"},
         ActivityRead(next) = ActivityRead(this) \cup {source}
  PROVE  PagesInv'
<1>1. /\ page \in Page /\ page.name = "activity" /\ page.next = this
      /\ page.before \subseteq records
      /\ \A e \in page.before : e.source \in {"audit", "notice", "case"}
      /\ \A e \in page.before \ page.got : e.source \in ActivityRead(this) => Outdone(e, page.got)
  BY DEF Query, RecordsInv, TypeOK, PagesInv, ActivityInv
<1>2. /\ page'.name = "activity" /\ page'.next = next /\ page'.before = page.before
      /\ page'.got = page.got \cup found
  BY <1>1 DEF Query, Page
<1>3. ASSUME NEW e \in page.before \ (page.got \cup found), e.source \in ActivityRead(next)
      PROVE  Outdone(e, page.got \cup found)
  <2>1. CASE e.source \in ActivityRead(this)
    BY <1>1, <1>3, <2>1, OutdoneGrows
  <2>2. CASE e.source = source
    <3>1. e \in Of(source) \ T
      BY <1>1, <1>3, <2>2 DEF Of
    <3>2. Of(source) \subseteq Entry /\ IsFiniteSet(Of(source))
      BY FoundIs DEF Of
    <3>3. Outdone(e, T)
      BY <3>1, <3>2, NewestOutdoes
    <3> QED
      BY <3>3, OutdoneGrows
  <2> QED
    BY <1>3, <2>1, <2>2
<1>4. ActivityInv'
  BY <1>1, <1>2, <1>3 DEF ActivityInv
<1>5. ActivityIsNewest'
  BY <1>2 DEF ActivityIsNewest, Shown
<1> QED
  BY <1>2, <1>4, <1>5, ActivityPages

LEMMA ReadActivityPages ==
  ASSUME RecordsInv, PagesInv, ReadActivity
  PROVE  PagesInv'
<1>1. CASE \E T \in Newest(Of("audit")) : Query("activity", "audit", "notice", T)
  <2>1. ActivityRead("notice") = ActivityRead("audit") \cup {"audit"}
    BY DEF ActivityRead
  <2> QED
    BY <1>1, <2>1, ActivityStep
<1>2. CASE \E T \in Newest(Of("notice")) : Query("activity", "notice", "case", T)
  <2>1. ActivityRead("case") = ActivityRead("notice") \cup {"notice"}
    BY DEF ActivityRead
  <2> QED
    BY <1>2, <2>1, ActivityStep
<1>3. CASE \E T \in Newest(Of("case")) :
             Query("activity", "case", "cut", T \cup Resolutions(T))
  <2>1. ActivityRead("cut") = ActivityRead("case") \cup {"case"}
    BY DEF ActivityRead
  <2>2. PICK T \in Newest(Of("case")) : Query("activity", "case", "cut", T \cup Resolutions(T))
    BY <1>3
  <2>3. T \subseteq T \cup Resolutions(T)
    OBVIOUS
  <2> QED
    BY <2>1, <2>2, <2>3, ActivityStep
<1>4. CASE /\ page.name = "activity" /\ page.next = "cut"
           /\ \E T \in Newest(page.got) : page' = [page EXCEPT !.next = "shown", !.got = T]
  <2>1. PICK T \in Newest(page.got) : page' = [page EXCEPT !.next = "shown", !.got = T]
    BY <1>4
  <2>2. /\ page \in Page /\ page.before \subseteq Entry
        /\ page.got \subseteq Entry /\ IsFiniteSet(page.got)
        /\ \A e \in page.before : e.source \in {"audit", "notice", "case"}
        /\ \A e \in page.before \ page.got :
             e.source \in ActivityRead("cut") => Outdone(e, page.got)
    BY <1>4 DEF RecordsInv, Page, PagesInv, ActivityInv
  <2>3. /\ page'.name = "activity" /\ page'.next = "shown" /\ page'.before = page.before
        /\ page'.got = T
    BY <1>4, <2>1, <2>2 DEF Page
  <2>4. ASSUME NEW e \in page.before \ T
        PROVE  Cardinality(T) = Limit /\ \A f \in T : f.at >= e.at
    <3>1. e \in page.got \/ Outdone(e, page.got)
      BY <2>2 DEF ActivityRead
    <3> QED
      BY <2>1, <2>2, <2>4, <3>1, CutIs
  <2>5. ActivityIsNewest'
    BY <2>3, <2>4 DEF ActivityIsNewest
  <2>6. ActivityInv'
    BY <2>2, <2>3 DEF ActivityInv, ActivityRead
  <2> QED
    BY <2>3, <2>5, <2>6, ActivityPages
<1> QED
  BY <1>1, <1>2, <1>3, <1>4 DEF ReadActivity

LEMMA ReadOverviewPages ==
  ASSUME RecordsInv, PagesInv, ReadOverview
  PROVE  PagesInv'
<1>1. PICK i \in 1 .. Len(Counts) :
        Query("overview", Counts[i], IF i = Len(Counts) THEN "shown" ELSE Counts[i + 1],
              Counted(Counts[i]))
  BY DEF ReadOverview
<1> DEFINE next == IF i = Len(Counts) THEN "shown" ELSE Counts[i + 1]
<1>2. /\ next # "raised"
      /\ next = "shown" => Counts[i] = "messages"
  BY DEF Counts
<1>3. page \in Page /\ UNCHANGED records
  BY <1>1 DEF RecordsInv, Query, writing
<1>4. /\ page'.name = "overview" /\ page'.next = next
      /\ page'.got = page.got \cup Counted(Counts[i])
  BY <1>1, <1>3 DEF Query, Page
<1>5. Counted("messages") = Of("notice")
  BY DEF Counted
<1>6. OverviewInv'
  BY <1>2, <1>3, <1>4, <1>5 DEF OverviewInv, Shown, Of
<1> QED
  BY <1>2, <1>4, <1>6, OverviewPages

-----------------------------------------------------------------------------
(* The inductive invariant.                                                *)

Inv == RecordsInv /\ PagesInv

LEMMA InitInv == Init => Inv
<1> SUFFICES ASSUME Init PROVE Inv
  OBVIOUS
<1>1. page \in Page /\ page.got = {} /\ page.before = {}
  BY DEF Init, NoPage, Page, PageNames, Queries
<1>2. TypeOK
  BY <1>1, TrailConstants DEF Init, NoPage, TypeOK, Writer
<1>3. CallsOK
  BY TrailConstants DEF Init, CallsOK
<1>4. RecordsInv
  BY <1>1, <1>2, <1>3, FS_EmptySet DEF Init, RecordsInv
<1>5. PagesInv
  BY DEF Init, NoPage, PagesInv, TimelineInv, ActivityInv, ActivityIsNewest, OverviewInv,
         Shown
<1> QED
  BY <1>4, <1>5 DEF Inv

LEMMA NextInv == Inv /\ [Next]_vars => Inv'
<1> SUFFICES ASSUME RecordsInv, PagesInv, [Next]_vars PROVE RecordsInv' /\ PagesInv'
  BY DEF Inv
<1>1. CASE Close
  BY <1>1, ClosePages
<1> DEFINE Quiet == page.next \notin {"shown", "raised"}
<1>2. ASSUME Quiet, NEW c \in Convs,
             \/ Interpret(c) \/ Book(c) \/ FollowUp(c) \/ Cancel(c) \/ Cancelled(c)
             \/ Sweep(c) \/ Remind(c)
      PROVE  RecordsInv' /\ PagesInv'
  BY <1>2, WritingRecords, QuietPages
<1>3. ASSUME Quiet, NEW c \in Convs, Resolve(c) PROVE RecordsInv' /\ PagesInv'
  BY <1>3, ResolveRecords, QuietPages
<1>4. ASSUME NEW c \in Convs, Open("trace", c) \/ Open("timeline", c)
      PROVE  RecordsInv' /\ PagesInv'
  BY <1>4, OpenRecords, OpenPages
<1>5. ASSUME Open("activity", None) \/ Open("overview", None)
      PROVE  RecordsInv' /\ PagesInv'
  BY <1>5, OpenRecords, OpenPages
<1>6. CASE ReadTrace
  BY <1>6, ReadTraceRecords, ReadTracePages
<1>7. CASE ReadTimeline
  BY <1>7, ReadTimelineRecords, ReadTimelinePages
<1>8. CASE ReadActivity
  BY <1>8, ReadActivityRecords, ReadActivityPages
<1>9. CASE ReadOverview
  BY <1>9, ReadOverviewRecords, ReadOverviewPages
<1>10. CASE Quiet /\ TimePasses
  <2>1. clock' \in 0 .. MaxTime /\ UNCHANGED <<writing, page>>
    BY <1>10, TrailConstants DEF TimePasses, RecordsInv, TypeOK
  <2>2. RecordsInv'
    BY <2>1 DEF RecordsInv, TypeOK, CallsOK, writing
  <2> QED
    BY <1>10, <2>1, <2>2, QuietPages
<1>11. CASE UNCHANGED vars
  BY <1>11 DEF vars, writing, RecordsInv, TypeOK, CallsOK, PagesInv, TimelineInv,
               TimelineHas, ActivityInv, ActivityIsNewest, OverviewInv, Shown, Of
<1> QED
  BY <1>1, <1>2, <1>3, <1>4, <1>5, <1>6, <1>7, <1>8, <1>9, <1>10, <1>11 DEF Next

(* What is written down, and what the queries found, hold throughout.      *)
THEOREM InvCorrect == Spec => []Inv
<1>1. Init => Inv
  BY InitInv
<1>2. Inv /\ [Next]_vars => Inv'
  BY NextInv
<1> QED
  BY <1>1, <1>2, PTL DEF Spec

(* Every variable keeps to its columns: whatever the conversations, what   *)
(* is written down and what a page holds are entries of the kinds there    *)
(* are.                                                                    *)
THEOREM TypeCorrect == Spec => []TypeOK
<1>1. Inv => TypeOK
  BY DEF Inv, RecordsInv
<1> QED
  BY <1>1, InvCorrect, PTL

(* A timeline leaves out nothing that was there when it was asked for, but *)
(* the steps of a run that is not linked yet.                              *)
THEOREM TimelineIsCompleteCorrect == Spec => []TimelineIsComplete
<1>1. ASSUME Inv, Shown("timeline"), NEW e \in page.before \ page.got
      PROVE  /\ e.source = "step"
             /\ \A f \in page.before :
                  RunOf(f) = RunOf(e) => f.source = "step" \/ f.by = "remind"
  <2>1. \A d \in page.before : TimelineHas(d, {"runs", "step", "audit", "notice", "job"})
    BY <1>1 DEF Inv, PagesInv, TimelineInv, TimelineRead, Shown
  <2>2. e.source = "step" /\ RunOf(e) \notin page.runs
    BY <1>1, <2>1 DEF TimelineHas
  <2>3. ASSUME NEW f \in page.before, RunOf(f) = RunOf(e), f.by # "remind"
        PROVE  f.source = "step"
    <3>1. f.by \notin Linking
      BY <2>1, <2>2, <2>3 DEF TimelineHas
    <3>2. f \in Entry /\ EntryOK(f)
      BY <1>1, <2>3 DEF Inv, RecordsInv, TypeOK
    <3>3. f.by \in {"request", "reply", "book", "cancel"}
      BY <2>3, <3>1, <3>2 DEF Entry, Writer, Linking
    <3>4. f.source \in {"step", "case"} /\ f.source # "case"
      BY <2>1, <2>3, <3>2, <3>3 DEF EntryOK, TimelineHas
    <3> QED
      BY <3>4
  <2> QED
    BY <2>2, <2>3
<1>2. Inv => TimelineIsComplete
  BY <1>1 DEF TimelineIsComplete
<1> QED
  BY <1>2, InvCorrect, PTL

(* What recent activity leaves out is no newer than what it shows, for     *)
(* every length of the list.                                               *)
THEOREM ActivityIsNewestCorrect == Spec => []ActivityIsNewest
<1>1. Inv => ActivityIsNewest
  BY DEF Inv, PagesInv
<1> QED
  BY <1>1, InvCorrect, PTL

(* No reminder falls between two counts of the overview.                   *)
THEOREM OverviewOverlooksNothingCorrect == Spec => []OverviewOverlooksNothing
<1>1. ASSUME Inv, Shown("overview"), NEW m \in records, m.by = "remind"
      PROVE  m \in page.got
  <2>1. m.source = "notice"
    BY <1>1 DEF Inv, RecordsInv, EntryOK
  <2> QED
    BY <1>1, <2>1 DEF Inv, PagesInv, OverviewInv, Of
<1>2. Inv => OverviewOverlooksNothing
  BY <1>1 DEF OverviewOverlooksNothing
<1> QED
  BY <1>2, InvCorrect, PTL

=============================================================================
