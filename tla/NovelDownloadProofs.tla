------------------------- MODULE NovelDownloadProofs -------------------------
(***************************************************************************)
(* Proofs about NovelDownload, for every number of sections, names, jobs,  *)
(* changes and interruptions and every period of the checkpoints: the      *)
(* cursor never passes a section without a body, the listing of a Worker   *)
(* library finds its bodies, an update the author made is not lost, and a  *)
(* recorded retry keeps the progress of its run.                           *)
(***************************************************************************)
EXTENDS NovelDownload, SequenceTheorems, TLAPS

-----------------------------------------------------------------------------
(* Where a run is.                                                         *)

\* Inside the section loop, behind it, and with its listing published.
InLoop == {"boundary", "section", "cache", "save", "yield", "yielded"}
Behind == {"toc", "supersede", "record", "clear", "settle"}
Published == Behind \ {"toc"}
Opened == InLoop \union Behind

Places ==
    /\ exec.pc \in InLoop => exec.at < Len(exec.toc)
    /\ exec.pc \in Behind => exec.at = Len(exec.toc)
    /\ exec.pc \in {"cache", "save"} => exec.body >= exec.toc[Here].date
    /\ exec.pc \in Published => toc = exec.toc
    /\ Worker /\ exec.pc \in {"attempt", "unsaved"} => writes = {}
    /\ Worker /\ exec.pc = "attempt" /\ exec.boundary # None => row.cursor = exec.boundary

-----------------------------------------------------------------------------
(* Dates grow.                                                             *)

\* The dates of a listing are not ahead of the changes that were made, and no
\* section has gone back since.
Past(listing) ==
    \A i \in DOMAIN listing :
        /\ listing[i].date <= used.changes + 1
        /\ i \in DOMAIN site => listing[i].date <= site[i].date

Dates ==
    /\ Past(site) /\ Past(toc) /\ Past(resume) /\ Past(exec.toc)
    /\ exec.pc \in Opened =>
          /\ \A i \in DOMAIN toc \intersect DOMAIN exec.toc : toc[i].date <= exec.toc[i].date
          /\ \A i \in DOMAIN resume \intersect DOMAIN exec.toc : resume[i].date <= exec.toc[i].date

-----------------------------------------------------------------------------
(* Native runs have no cursor, and one body per section.                   *)

Native ==
    ~Worker =>
        /\ row.cursor = 0 /\ exec.from = 0 /\ exec.boundary \in {None, 0}
        /\ resume = <<>> /\ writes = {} /\ adopted = {}
        /\ \A i \in Index, m, n \in Name : Stored(i, m) /\ Stored(i, n) => m = n
        /\ exec.pc = "save" => ~Existed(Here)
        /\ exec.pc \notin {"yield", "yielded"}

-----------------------------------------------------------------------------
(* Bodies.                                                                 *)

\* The sections a run has behind it or will not fetch.
Settled == {i \in DOMAIN exec.toc : i <= exec.at \/ i \notin exec.plan}

\* All sections up to a cursor have a body.
Filled(cursor) == \A i \in 1..cursor : Existed(i)

Backed ==
    Worker =>
        /\ Filled(row.cursor)
        /\ exec.boundary # None => Filled(exec.boundary)
        /\ \A w \in writes : Filled(w)
        /\ TocReadable
        /\ exec.pc \in Opened => \A i \in Settled : Stored(i, exec.toc[i].name)

\* A section of a listing is as new as the listing says, unless it was adopted.
Fresh(i, section) ==
    Existed(i) /\ <<i, section.name>> \notin adopted =>
        \A b \in Body(i, section.name) : b >= section.date

Kept ==
    /\ UpdatesKept
    /\ exec.pc \in Opened => \A i \in Settled : Fresh(i, exec.toc[i])

NovelInv == TypeOK /\ Places /\ Dates /\ Native /\ Backed /\ Kept

-----------------------------------------------------------------------------
(* Listings.                                                               *)

LEMMA ListingIs ==
    ASSUME NEW listing
    PROVE  listing \in Listing <=> listing \in Seq(Entry) /\ Len(listing) <= MaxLength
<1>0. MaxLength \in Nat
  BY BoundAssumption
<1>1. ASSUME NEW n \in 0..MaxLength, listing \in [1..n -> Entry]
      PROVE  listing \in Seq(Entry) /\ Len(listing) <= MaxLength
  <2>1. n \in Nat /\ listing \in Seq(Entry)
    BY <1>0, <1>1, SeqDef
  <2>2. Len(listing) \in Nat /\ DOMAIN listing = 1..Len(listing) /\ DOMAIN listing = 1..n
    BY <1>1, <2>1, LenProperties
  <2>3. Len(listing) = n
    <3> DEFINE k == Len(listing)
    <3> HIDE DEF k
    <3>1. k \in Nat /\ \A i \in Nat : i \in 1..k <=> i \in 1..n
      BY <2>2 DEF k
    <3>2. (k > 0 => k <= n) /\ (n > 0 => n <= k)
      BY <2>1, <3>1
    <3> QED
      BY <2>1, <3>1, <3>2 DEF k
  <2> QED
    BY <1>0, <2>1, <2>3
<1>2. ASSUME listing \in Seq(Entry), Len(listing) <= MaxLength
      PROVE  listing \in Listing
  <2>1. Len(listing) \in 0..MaxLength /\ listing \in [1..Len(listing) -> Entry]
    BY <1>0, <1>2, LenProperties
  <2> QED
    BY <2>1 DEF Listing
<1> QED
  BY <1>1, <1>2 DEF Listing

LEMMA ListingFacts ==
    ASSUME NEW listing \in Listing
    PROVE  /\ Len(listing) \in 0..MaxLength /\ Len(listing) \in Nat
           /\ DOMAIN listing = 1..Len(listing) /\ DOMAIN listing \subseteq Index
           /\ \A i \in DOMAIN listing : /\ listing[i] \in Entry /\ listing[i].name \in Name
                                        /\ listing[i].date \in Date /\ i \in Nat /\ i >= 1
<1>0. MaxLength \in Nat /\ listing \in Seq(Entry) /\ Len(listing) <= MaxLength
  BY ListingIs, BoundAssumption
<1>1. /\ Len(listing) \in Nat /\ DOMAIN listing = 1..Len(listing)
      /\ listing \in [1..Len(listing) -> Entry]
  BY <1>0, LenProperties
<1> QED
  BY <1>0, <1>1 DEF Entry, Index, Date

LEMMA EmptyListing == <<>> \in Listing /\ Len(<<>>) = 0 /\ DOMAIN <<>> = {}
<1>1. <<>> \in Seq(Entry) /\ Len(<<>>) = 0
  BY EmptySeq
<1>2. <<>> \in Listing
  <2>1. Len(<<>>) <= MaxLength
    BY <1>1, BoundAssumption
  <2> QED
    BY <1>1, <2>1, ListingIs, Zenon
<1> QED
  BY <1>1, <1>2

LEMMA Prefix ==
    ASSUME NEW listing \in Listing, NEW n \in 0..Len(listing)
    PROVE  LET prefix == SubSeq(listing, 1, n)
           IN  /\ prefix \in Listing /\ Len(prefix) = n /\ DOMAIN prefix = 1..n
               /\ \A i \in 1..n : prefix[i] = listing[i]
<1> DEFINE prefix == SubSeq(listing, 1, n)
<1>0. /\ Len(listing) \in 0..MaxLength /\ MaxLength \in Nat /\ DOMAIN listing = 1..Len(listing)
      /\ \A i \in DOMAIN listing : listing[i] \in Entry
  BY ListingFacts, BoundAssumption
<1>1. n \in Int /\ 1 \in Int /\ \A i \in 1..n : listing[i] \in Entry
  BY <1>0
<1>2. /\ prefix \in Seq(Entry) /\ Len(prefix) = (IF 1 <= n THEN n - 1 + 1 ELSE 0)
      /\ \A i \in 1..n - 1 + 1 : prefix[i] = listing[1 + i - 1]
  BY <1>1, SubSeqProperties
<1> HIDE DEF prefix
<1>3. Len(prefix) = n /\ \A i \in 1..n : prefix[i] = listing[i]
  BY <1>0, <1>2
<1>4. prefix \in Listing
  BY <1>0, <1>2, <1>3, ListingIs
<1>5. DOMAIN prefix = 1..n
  BY <1>3, <1>4, ListingFacts
<1> QED
  BY <1>3, <1>4, <1>5 DEF prefix

LEMMA Extended ==
    ASSUME NEW listing \in Listing, NEW e \in Entry, Len(listing) < MaxLength
    PROVE  LET longer == Append(listing, e)
           IN  /\ longer \in Listing /\ Len(longer) = Len(listing) + 1
               /\ DOMAIN longer = 1..Len(listing) + 1
               /\ \A i \in 1..Len(listing) : longer[i] = listing[i]
               /\ longer[Len(listing) + 1] = e
<1> DEFINE longer == Append(listing, e)
<1>0. /\ listing \in Seq(Entry) /\ Len(listing) \in Nat /\ MaxLength \in Nat
  BY ListingIs, ListingFacts, BoundAssumption
<1>1. /\ longer \in Seq(Entry) /\ Len(longer) = Len(listing) + 1
      /\ \A i \in 1..Len(listing) : longer[i] = listing[i]
      /\ longer[Len(listing) + 1] = e
  BY <1>0
<1> HIDE DEF longer
<1>2. longer \in Listing
  BY <1>0, <1>1, ListingIs
<1>3. DOMAIN longer = 1..Len(listing) + 1
  BY <1>1, <1>2, ListingFacts
<1> QED
  BY <1>1, <1>2, <1>3 DEF longer

LEMMA Edited ==
    ASSUME NEW listing \in Listing, NEW i \in DOMAIN listing, NEW e \in Entry
    PROVE  LET edited == [listing EXCEPT ![i] = e]
           IN  /\ edited \in Listing /\ Len(edited) = Len(listing)
               /\ DOMAIN edited = DOMAIN listing
               /\ \A j \in DOMAIN listing : edited[j] = IF j = i THEN e ELSE listing[j]
<1> DEFINE edited == [listing EXCEPT ![i] = e]
<1>0. /\ listing \in Seq(Entry) /\ Len(listing) <= MaxLength /\ i \in 1..Len(listing)
      /\ DOMAIN listing = 1..Len(listing)
  BY ListingIs, ListingFacts
<1>1. /\ edited \in Seq(Entry) /\ Len(edited) = Len(listing)
      /\ \A j \in 1..Len(listing) : edited[j] = IF j = i THEN e ELSE listing[j]
  BY <1>0, ExceptSeq
<1> HIDE DEF edited
<1>2. edited \in Listing
  BY <1>0, <1>1, ListingIs
<1> QED
  BY <1>0, <1>1, <1>2, ListingFacts DEF edited

-----------------------------------------------------------------------------
(* What the steps do to the run.                                           *)

RunState == [pc : Step, toc : Listing, old : Listing, plan : SUBSET Index,
             from : 0..MaxLength, restored : 0..MaxLength, at : 0..MaxLength,
             boundary : 0..MaxLength \union {None}, saved : 0..MaxLength,
             body : Date \union {0}]

RowState == [status : {"none", "queued", "running"}, cursor : 0..MaxLength, force : BOOLEAN]

\* A step inside one pass over the sections.
Same(run, next) ==
    /\ next.toc = run.toc /\ next.old = run.old /\ next.plan = run.plan /\ next.from = run.from

LEMMA TypeFacts ==
    ASSUME TypeOK
    PROVE  /\ exec \in RunState /\ exec.pc \in Step /\ row \in RowState /\ row.cursor \in 0..MaxLength
           /\ site \in Listing /\ toc \in Listing /\ resume \in Listing
           /\ exec.toc \in Listing /\ exec.old \in Listing /\ exec.plan \subseteq Index
           /\ exec.at \in 0..MaxLength /\ exec.from \in 0..MaxLength
           /\ exec.body \in Date \union {0} /\ exec.boundary \in 0..MaxLength \union {None}
           /\ MaxLength \in Nat \ {0} /\ CheckpointEvery \in Nat \ {0}
           /\ MaxChanges \in Nat /\ used.changes \in Nat
BY BoundAssumption DEF TypeOK, RunState, RowState, Bounds

LEMMA IdleIs ==
    /\ Idle \in RunState /\ Idle.pc = "idle" /\ Idle.toc = <<>> /\ Idle.old = <<>>
    /\ Idle.plan = {} /\ Idle.from = 0 /\ Idle.at = 0 /\ Idle.boundary = None
<1>1. 0 \in 0..MaxLength /\ "idle" \in Step
  BY BoundAssumption DEF Step
<1> QED
  BY <1>1, EmptyListing DEF Idle, RunState

\* The loop goes on with the next section, or leaves it.
LEMMA LoopedIs ==
    ASSUME NEW run \in RunState, NEW done \in 0..Len(run.toc)
    PROVE  LET next == Looped(run, done)
           IN  /\ next \in RunState /\ Same(run, next) /\ next.at = done
               /\ next.boundary = run.boundary
               /\ \/ next.pc = "boundary" /\ done < Len(run.toc)
                  \/ next.pc = "toc" /\ done = Len(run.toc)
<1> DEFINE p == IF done < Len(run.toc) THEN "boundary" ELSE "toc"
<1>1. Len(run.toc) \in 0..MaxLength /\ MaxLength \in Nat
  BY ListingFacts, BoundAssumption DEF RunState
<1>2. done \in 0..MaxLength /\ p \in Step
  BY <1>1 DEF Step
<1>3. \/ p = "boundary" /\ done < Len(run.toc)
      \/ p = "toc" /\ done = Len(run.toc)
  BY <1>1
<1> HIDE DEF p
<1>4. [run EXCEPT !.at = done, !.pc = p] \in RunState
  BY <1>2 DEF RunState
<1>5. LET next == [run EXCEPT !.at = done, !.pc = p]
      IN  Same(run, next) /\ next.at = done /\ next.boundary = run.boundary /\ next.pc = p
  BY DEF RunState, Same
<1> QED
  BY <1>3, <1>4, <1>5 DEF Looped, p

LEMMA AtBoundaryIs ==
    ASSUME NEW run \in RunState, NEW p \in Step
    PROVE  LET next == [AtBoundary(run) EXCEPT !.pc = p]
           IN  /\ next \in RunState /\ Same(run, next) /\ next.at = run.at
               /\ next.boundary = run.at /\ next.pc = p
               /\ Sent(run) \subseteq {run.at}
<1> DEFINE n == IF run.at >= run.saved + CheckpointEvery THEN run.at ELSE run.saved
           to == AtBoundary(run)
<1>1. n \in 0..MaxLength /\ run.at \in 0..MaxLength
  BY DEF RunState
<1>2. to = [run EXCEPT !.boundary = run.at, !.saved = n]
  BY DEF AtBoundary
<1> HIDE DEF n, to
<1>3. to \in RunState /\ Same(run, to) /\ to.at = run.at /\ to.boundary = run.at
  BY <1>1, <1>2 DEF RunState, Same
<1>4. LET next == [to EXCEPT !.pc = p]
      IN  next \in RunState /\ Same(to, next) /\ next.at = to.at
          /\ next.boundary = to.boundary /\ next.pc = p
  BY <1>3 DEF RunState, Same
<1>5. Sent(run) \subseteq {run.at}
  BY <1>3 DEF Sent, to
<1> QED
  BY <1>3, <1>4, <1>5 DEF Same, to

\* A step that only moves the program counter, or empties the hands as well.
LEMMA MovedIs ==
    ASSUME NEW run \in RunState, NEW p \in Step, NEW b \in Date \union {0}
    PROVE  /\ LET next == [run EXCEPT !.pc = p]
              IN  /\ next \in RunState /\ Same(run, next) /\ next.at = run.at
                  /\ next.boundary = run.boundary /\ next.pc = p /\ next.body = run.body
           /\ LET next == [run EXCEPT !.body = b, !.pc = p]
              IN  /\ next \in RunState /\ Same(run, next) /\ next.at = run.at
                  /\ next.boundary = run.boundary /\ next.pc = p /\ next.body = b
           /\ LET next == [run EXCEPT !.body = b]
              IN  /\ next \in RunState /\ Same(run, next) /\ next.at = run.at
                  /\ next.boundary = run.boundary /\ next.pc = run.pc
BY DEF RunState, Same

\* The author's changes: the listing stays one, nothing else moves.
LEMMA AuthorIs ==
    ASSUME TypeOK, Past(site), Author
    PROVE  /\ site' \in Listing /\ used' \in [Bounds -> Nat] /\ used'.changes = used.changes + 1
           /\ UNCHANGED <<runtime, store, toc, resume, record, row, exec, writes, adopted>>
           /\ \A i \in DOMAIN site' :
                 /\ site'[i].date <= used.changes + 2
                 /\ i \in DOMAIN site => site[i].date <= site'[i].date
                 /\ i \notin DOMAIN site => site'[i].date = used.changes + 2
<1>0. /\ site \in Listing /\ used.changes \in Nat /\ MaxChanges \in Nat /\ MaxLength \in Nat
      /\ DOMAIN site = 1..Len(site) /\ Len(site) \in Nat
      /\ \A i \in DOMAIN site : site[i] \in Entry /\ site[i].date \in Nat /\ i \in Nat
      /\ \A i \in DOMAIN site : site[i].date <= used.changes + 1
  <2>1. site \in Listing /\ used.changes \in Nat /\ MaxChanges \in Nat /\ MaxLength \in Nat
    BY TypeFacts
  <2>2. /\ DOMAIN site = 1..Len(site) /\ Len(site) \in Nat
        /\ \A i \in DOMAIN site : site[i] \in Entry /\ site[i].date \in Date /\ i \in Nat
    BY <2>1, ListingFacts
  <2> QED
    BY <2>1, <2>2 DEF Past, Date
<1>1. \A listing : Changes(listing) =>
         /\ site' = listing /\ used' \in [Bounds -> Nat] /\ used'.changes = used.changes + 1
         /\ used.changes < MaxChanges
         /\ UNCHANGED <<runtime, store, toc, resume, record, row, exec, writes, adopted>>
  BY DEF Changes, TypeOK, Bounds
<1>2. CASE SectionUpdated
  <2>1. PICK i \in DOMAIN site : Changes([site EXCEPT ![i].date = Now])
    BY <1>2 DEF SectionUpdated
  <2> DEFINE e == [site[i] EXCEPT !.date = Now]
  <2>2. e \in Entry /\ e.date = used.changes + 2 /\ site' = [site EXCEPT ![i] = e]
    <3>1. site[i] \in Entry /\ Now \in Date /\ Now = used.changes + 2
      BY <1>0, <1>1, <2>1 DEF Date, Now
    <3>2. e \in Entry /\ e.date = Now
      BY <3>1 DEF Entry
    <3>3. site' = [site EXCEPT ![i].date = Now]
      BY <1>1, <2>1
    <3> QED
      BY <3>1, <3>2, <3>3
  <2> HIDE DEF e
  <2>3. /\ site' \in Listing /\ DOMAIN site' = DOMAIN site
        /\ \A j \in DOMAIN site : site'[j] = IF j = i THEN e ELSE site[j]
    BY <1>0, <2>1, <2>2, Edited
  <2> QED
    BY <1>0, <1>1, <2>1, <2>2, <2>3
<1>3. CASE SectionRenamed
  <2>1. PICK i \in DOMAIN site, n \in Name : Changes([site EXCEPT ![i].name = n])
    BY <1>3 DEF SectionRenamed
  <2> DEFINE e == [site[i] EXCEPT !.name = n]
  <2>2. e \in Entry /\ e.date = site[i].date /\ site' = [site EXCEPT ![i] = e]
    BY <1>0, <1>1, <2>1 DEF Entry, Date
  <2> HIDE DEF e
  <2>3. /\ site' \in Listing /\ DOMAIN site' = DOMAIN site
        /\ \A j \in DOMAIN site : site'[j] = IF j = i THEN e ELSE site[j]
    BY <1>0, <2>1, <2>2, Edited
  <2> QED
    BY <1>0, <1>1, <2>1, <2>2, <2>3
<1>4. CASE SectionAdded
  <2>1. PICK n \in Name : Len(site) < MaxLength /\ Changes(Append(site, [date |-> Now, name |-> n]))
    BY <1>4 DEF SectionAdded
  <2> DEFINE e == [date |-> Now, name |-> n]
  <2>2. e \in Entry /\ e.date = used.changes + 2
    BY <1>0, <1>1, <2>1 DEF Entry, Date, Now
  <2>3. site' = Append(site, e)
    BY <1>1, <2>1
  <2> HIDE DEF e
  <2>4. /\ site' \in Listing /\ DOMAIN site' = 1..Len(site) + 1
        /\ \A j \in 1..Len(site) : site'[j] = site[j]
        /\ site'[Len(site) + 1] = e
    BY <1>0, <2>1, <2>2, <2>3, Extended
  <2>5. \A j \in DOMAIN site' : j \in DOMAIN site \/ (j = Len(site) + 1 /\ j \notin DOMAIN site)
    BY <1>0, <2>4
  <2>6. \A j \in DOMAIN site : site'[j].date = site[j].date
    BY <1>0, <2>4
  <2> QED
    BY <1>0, <1>1, <2>1, <2>2, <2>4, <2>5, <2>6
<1>5. CASE LastSectionRemoved
  <2>1. Len(site) > 1 /\ Changes(SubSeq(site, 1, Len(site) - 1))
    BY <1>5 DEF LastSectionRemoved
  <2> DEFINE n == Len(site) - 1
  <2>2. site' = SubSeq(site, 1, n)
    BY <1>1, <2>1
  <2>3. n \in 0..Len(site) /\ n \in Nat
    BY <1>0, <2>1
  <2> HIDE DEF n
  <2>4. /\ site' \in Listing /\ DOMAIN site' = 1..n
        /\ \A j \in 1..n : site'[j] = site[j]
    BY <1>0, <2>2, <2>3, Prefix
  <2>5. \A j \in 1..n : j \in DOMAIN site
    BY <1>0, <2>3
  <2> QED
    BY <1>0, <1>1, <2>1, <2>4, <2>5
<1> QED
  BY <1>2, <1>3, <1>4, <1>5 DEF Author

\* The section the run is at is one of its listing.
LEMMA HereIs ==
    ASSUME TypeOK, Places, exec.pc \in InLoop
    PROVE  /\ Here \in DOMAIN exec.toc /\ Here \in 1..Len(exec.toc) /\ Here \in Index
           /\ Len(exec.toc) \in 0..MaxLength
           /\ exec.toc[Here] \in Entry /\ exec.toc[Here].name \in Name /\ exec.toc[Here].date \in Nat
<1>1. /\ exec.toc \in Listing /\ exec.at \in Nat /\ exec.at < Len(exec.toc)
      /\ MaxChanges \in Nat
  BY TypeFacts DEF Places
<1> DEFINE listing == exec.toc
<1> HIDE DEF listing
<1>2. /\ Len(listing) \in 0..MaxLength /\ DOMAIN listing = 1..Len(listing) /\ Len(listing) \in Nat
      /\ \A i \in DOMAIN listing : /\ listing[i] \in Entry /\ listing[i].name \in Name
                                   /\ listing[i].date \in Date /\ i \in Index
  BY <1>1, ListingFacts DEF listing
<1>3. exec.at + 1 \in 1..Len(listing)
  BY <1>1, <1>2 DEF listing
<1>4. Date \subseteq Nat
  BY <1>1 DEF Date
<1> QED
  BY <1>2, <1>3, <1>4 DEF Here, listing

\* The type of the state, part by part.
LEMMA TypeNext ==
    ASSUME TypeOK, UNCHANGED runtime, site' \in Listing, toc' \in Listing, resume' \in Listing,
           store' \in [Index -> [Name -> Date \union {0}]], record' \in BOOLEAN,
           row' \in RowState, exec' \in RunState, writes' \subseteq 0..MaxLength,
           used' \in [Bounds -> Nat], adopted' \subseteq Index \X Name
    PROVE  TypeOK'
BY Zenon DEF TypeOK, RunState, RowState

\* What the steps do to the job's row.
LEMMA RowIs ==
    ASSUME NEW job \in RowState, NEW s \in {"none", "queued", "running"}, NEW c \in 0..MaxLength
    PROVE  /\ LET next == [job EXCEPT !.status = s]
              IN  next \in RowState /\ next.status = s /\ next.cursor = job.cursor
           /\ LET next == [job EXCEPT !.cursor = c]
              IN  next \in RowState /\ next.status = job.status /\ next.cursor = c
           /\ LET next == [job EXCEPT !.status = s, !.cursor = c]
              IN  next \in RowState /\ next.status = s /\ next.cursor = c
BY DEF RowState

\* What opening a listing makes of the run.
LEMMA OpenIs ==
    ASSUME TypeOK, Open
    PROVE  /\ Restored \in 0..Len(site) /\ Restored <= exec.from /\ Restored <= Len(resume)
           /\ exec.from <= Len(site)
           /\ exec' \in RunState /\ exec'.toc = site /\ exec'.at = Restored
           /\ exec'.from = exec.from /\ exec'.boundary = exec.boundary
           /\ exec'.plan = {i \in DOMAIN site : i > exec.from /\ (row.force \/ NeedsDownload(i))}
           /\ \/ exec'.pc = "boundary" /\ Restored < Len(site)
              \/ exec'.pc = "toc" /\ Restored = Len(site)
<1> DEFINE plan == {i \in DOMAIN site : i > exec.from /\ (row.force \/ NeedsDownload(i))}
           run == [exec EXCEPT !.toc = site, !.old = toc, !.restored = Restored, !.plan = plan]
<1>1. /\ exec \in RunState /\ site \in Listing /\ toc \in Listing /\ MaxLength \in Nat
      /\ exec.from \in Nat
  BY TypeFacts
<1>2. /\ Len(site) \in Nat /\ Len(resume) \in Nat /\ DOMAIN site = 1..Len(site)
      /\ Len(site) <= MaxLength /\ DOMAIN site \subseteq Index
  BY TypeFacts, ListingFacts
<1>3. exec.from <= Len(site) /\ exec' = Looped(run, Restored)
  BY DEF Open, Resumable
<1>4. /\ Restored \in 0..MaxLength /\ Restored \in 0..Len(site) /\ Restored <= exec.from
      /\ Restored <= Len(resume)
  BY <1>1, <1>2, <1>3 DEF Restored
<1>5. plan \subseteq Index
  BY <1>2
<1>6. /\ run \in RunState /\ run.toc = site /\ run.plan = plan /\ run.from = exec.from
      /\ run.boundary = exec.boundary
  <2> HIDE DEF plan
  <2> QED
    BY <1>1, <1>4, <1>5 DEF RunState
<1> HIDE DEF run
<1>7. LET next == Looped(run, Restored)
      IN  /\ next \in RunState /\ Same(run, next) /\ next.at = Restored
          /\ next.boundary = run.boundary
          /\ \/ next.pc = "boundary" /\ Restored < Len(run.toc)
             \/ next.pc = "toc" /\ Restored = Len(run.toc)
  BY <1>4, <1>6, LoopedIs
<1> HIDE DEF plan
<1>8. /\ exec' \in RunState /\ exec'.toc = site /\ exec'.at = Restored
      /\ exec'.from = exec.from /\ exec'.boundary = exec.boundary /\ exec'.plan = plan
      /\ \/ exec'.pc = "boundary" /\ Restored < Len(site)
         \/ exec'.pc = "toc" /\ Restored = Len(site)
  BY <1>3, <1>6, <1>7 DEF Same
<1> QED
  BY <1>3, <1>4, <1>8 DEF plan

LEMMA TypeStep ==
    ASSUME TypeOK, Places, Past(site), [Next]_vars
    PROVE  TypeOK'
<1> DEFINE Bodies == [Index -> [Name -> Date \union {0}]]
<1>0. /\ runtime \in Runtime /\ site \in Listing /\ toc \in Listing /\ resume \in Listing
      /\ store \in Bodies /\ record \in BOOLEAN /\ row \in RowState /\ exec \in RunState
      /\ writes \subseteq 0..MaxLength /\ used \in [Bounds -> Nat] /\ adopted \subseteq Index \X Name
  BY DEF TypeOK, RunState, RowState
<1>1. /\ MaxLength \in Nat /\ 0 \in 0..MaxLength /\ Idle \in RunState /\ <<>> \in Listing
      /\ {"idle", "open", "boundary", "section", "cache", "save", "yield", "yielded",
          "drain", "attempt", "unsaved", "toc", "supersede", "record", "clear", "settle"} \subseteq Step
  BY BoundAssumption, IdleIs, EmptyListing DEF Step
<1>2. /\ exec.from \in 0..MaxLength /\ exec.at \in 0..MaxLength /\ exec.toc \in Listing
      /\ exec.body \in Date \union {0} /\ exec.boundary \in 0..MaxLength \union {None}
      /\ row.cursor \in 0..MaxLength
  BY <1>0 DEF RunState, RowState
<1>4. [used EXCEPT !.jobs = @ + 1] \in [Bounds -> Nat] /\ [used EXCEPT !.interrupts = @ + 1] \in [Bounds -> Nat]
  BY <1>0 DEF Bounds
<1>moved. \A p \in Step, b \in Date \union {0} :
         [exec EXCEPT !.pc = p] \in RunState /\ [exec EXCEPT !.body = b, !.pc = p] \in RunState
  BY <1>0 DEF RunState
<1>job. \A s \in {"none", "queued", "running"}, c \in 0..MaxLength :
         /\ [row EXCEPT !.status = s] \in RowState /\ [row EXCEPT !.cursor = c] \in RowState
         /\ [row EXCEPT !.status = s, !.cursor = c] \in RowState
  BY <1>0 DEF RowState
<1> HIDE DEF Bodies
<1>5. CASE UNCHANGED vars
  BY <1>5 DEF TypeOK, vars
<1>6. CASE Author
  BY <1>0, <1>6, AuthorIs, TypeNext DEF Bodies
<1>7. CASE Submit
  <2>1. row' \in RowState
    BY <1>1, <1>7 DEF Submit, NoJob, RowState
  <2> QED
    BY <1>0, <1>4, <1>7, <2>1, TypeNext DEF Submit, Bodies
<1>8. CASE Claim
  <2>1. exec' \in RunState
    BY <1>1, <1>2, <1>8 DEF Claim, RunState
  <2>2. row' \in RowState
    BY <1>0, <1>2, <1>8, <1>job DEF Claim
  <2> QED
    BY <1>0, <1>8, <2>1, <2>2, TypeNext DEF Claim, Bodies
<1>9. CASE RestartCorrupt
  <2>1. exec' \in RunState
    BY <1>0, <1>1, <1>9 DEF RestartCorrupt, Restarted, RunState
  <2> QED
    BY <1>0, <1>9, <2>1, TypeNext DEF RestartCorrupt, Bodies
<1>10. CASE Open
  <2>1. /\ exec' \in RunState /\ Restored \in 0..Len(site) /\ exec.from <= Len(site)
        /\ DOMAIN site = 1..Len(site) /\ Len(site) \in Nat /\ Len(site) <= MaxLength
    BY <1>0, <1>10, OpenIs, ListingFacts
  <2>2. adopted' \subseteq Index \X Name
    <3>1. \A i \in Restored + 1..exec.from : i \in Index /\ i \in DOMAIN site
      BY <1>1, <1>2, <2>1 DEF Index
    <3>2. \A i \in DOMAIN site : site[i].name \in Name
      BY <1>0, ListingFacts
    <3> QED
      BY <1>0, <1>10, <3>1, <3>2 DEF Open
  <2> QED
    BY <1>0, <1>1, <1>10, <2>1, <2>2, TypeNext DEF Open, Bodies
<1>11. CASE Digest
  BY <1>0, <1>1, <1>11, <1>job, TypeNext DEF Digest, Bodies
<1>12. CASE Boundary
  <2>1. ASSUME NEW p \in Step, Bounded(p)
        PROVE  exec' \in RunState /\ writes' \subseteq 0..MaxLength
    <3>1. [AtBoundary(exec) EXCEPT !.pc = p] \in RunState /\ Sent(exec) \subseteq {exec.at}
      BY <1>0, AtBoundaryIs
    <3> QED
      BY <1>0, <1>2, <2>1, <3>1 DEF Bounded
  <2>2. [exec EXCEPT !.pc = "section"] \in RunState
    BY <1>0, <1>1, <1>2, <1>moved
  <2>3. exec' \in RunState /\ writes' \subseteq 0..MaxLength
    BY <1>0, <1>1, <1>12, <2>1, <2>2 DEF Boundary
  <2> QED
    BY <1>0, <1>12, <2>3, TypeNext DEF Boundary, Bodies
<1>13. CASE KeepSection
  <2>1. exec' \in RunState
    BY <1>0, <1>13, HereIs, LoopedIs DEF KeepSection, InLoop
  <2> QED
    BY <1>0, <1>13, <2>1, TypeNext DEF KeepSection, Bodies
<1>14. CASE FetchSection
  <2>1. site[Here].date \in Date \union {0}
    BY <1>0, <1>14, ListingFacts DEF FetchSection
  <2>2. exec' \in RunState
    BY <1>0, <1>1, <1>14, <2>1, <1>moved DEF FetchSection
  <2> QED
    BY <1>0, <1>14, <2>2, TypeNext DEF FetchSection, Bodies
<1>15. CASE CacheSection
  <2>1. exec' \in RunState
    BY <1>0, <1>1, <1>2, <1>15, <1>moved DEF CacheSection
  <2>2. store' \in Bodies
    BY <1>0, <1>15 DEF CacheSection, CacheTakes, Bodies
  <2> QED
    BY <1>0, <1>15, <2>1, <2>2, TypeNext DEF CacheSection, Bodies
<1>16. CASE SaveSection
  <2>1. exec.pc \in InLoop /\ 0 \in Date \union {0}
    BY <1>16 DEF SaveSection, InLoop
  <2> DEFINE run == [exec EXCEPT !.body = 0]
             yielded == [exec EXCEPT !.body = 0, !.pc = "yield"]
  <2>2. exec' = Looped(run, Here) \/ exec' = yielded
    BY <1>16 DEF SaveSection
  <2>3. run \in RunState /\ run.toc = exec.toc /\ yielded \in RunState
    <3>1. yielded \in RunState
      BY <1>1, <2>1, <1>moved
    <3>2. run \in RunState /\ run.toc = exec.toc
      BY <1>0, <2>1 DEF RunState
    <3> QED
      BY <3>1, <3>2
  <2> HIDE DEF run, yielded
  <2>4. Here \in 0..Len(run.toc)
    BY <1>2, <2>1, <2>3, HereIs, ListingFacts
  <2>5. exec' \in RunState
    BY <2>2, <2>3, <2>4, LoopedIs
  <2>6. store' \in Bodies
    BY <1>0, <1>2, <1>16, <2>1, HereIs DEF SaveSection, Bodies
  <2>7. adopted' \subseteq Index \X Name
    BY <1>0, <1>16 DEF SaveSection
  <2> QED
    BY <1>0, <1>16, <2>5, <2>6, <2>7, TypeNext DEF SaveSection, Bodies
<1>17. CASE SaveResume
  <2>1. exec' \in RunState
    BY <1>0, <1>1, <1>2, <1>17, <1>moved DEF SaveResume
  <2>2. SubSeq(exec.toc, 1, exec.at) \in Listing
    <3>1. exec.at \in 0..Len(exec.toc)
      BY <1>2, <1>17, ListingFacts DEF SaveResume, Places, InLoop
    <3> QED
      BY <1>2, <3>1, Prefix
  <2> QED
    BY <1>0, <1>17, <2>1, <2>2, TypeNext DEF SaveResume, Bodies
<1>18. CASE YieldExecution
  <2>1. row' \in RowState
    BY <1>0, <1>2, <1>18, <1>job DEF YieldExecution
  <2> QED
    BY <1>0, <1>1, <1>4, <1>18, <2>1, TypeNext DEF YieldExecution, Bodies
<1>19. CASE SaveToc
  <2>1. exec' \in RunState
    BY <1>0, <1>1, <1>2, <1>19, <1>moved DEF SaveToc
  <2> QED
    BY <1>0, <1>2, <1>19, <2>1, TypeNext DEF SaveToc, Bodies
<1>20. CASE DeleteSuperseded
  <2>1. exec' \in RunState
    BY <1>0, <1>1, <1>2, <1>20, <1>moved DEF DeleteSuperseded
  <2>2. store' \in Bodies
    BY <1>0, <1>20 DEF DeleteSuperseded, Bodies
  <2> QED
    BY <1>0, <1>20, <2>1, <2>2, TypeNext DEF DeleteSuperseded, Bodies
<1>21. CASE UpsertRecord \/ ClearResume
  <2>1. exec' \in RunState
    BY <1>0, <1>1, <1>2, <1>21, <1>moved DEF UpsertRecord, ClearResume
  <2>2. resume' \in Listing /\ record' \in BOOLEAN
    BY <1>0, <1>1, <1>21 DEF UpsertRecord, ClearResume
  <2> QED
    BY <1>0, <1>21, <2>1, <2>2, TypeNext DEF UpsertRecord, ClearResume, Bodies
<1>22. CASE Settle
  BY <1>0, <1>1, <1>22, <1>2, <1>job, TypeNext DEF Settle, Bodies
<1>23. CASE Fail \/ SectionGone
  <2>1. Failed
    BY <1>23 DEF Fail, SectionGone
  <2>2. exec' \in RunState
    BY <1>0, <1>1, <1>2, <2>1, <1>moved DEF Failed
  <2>3. row' \in RowState
    BY <1>0, <1>2, <2>1, <1>job DEF Failed
  <2>4. used' \in [Bounds -> Nat]
    BY <1>0, <1>4, <1>23 DEF Fail, SectionGone
  <2> QED
    BY <1>0, <1>23, <2>2, <2>3, <2>4, TypeNext DEF Fail, SectionGone, Bodies
<1>24. CASE SaveRetryProgress
  <2>1. exec' \in RunState
    BY <1>0, <1>1, <1>2, <1>24, <1>moved DEF SaveRetryProgress
  <2>2. row' \in RowState
    BY <1>0, <1>2, <1>24, <1>job, Zenon DEF SaveRetryProgress
  <2> QED
    BY <1>0, <1>24, <2>1, <2>2, TypeNext DEF SaveRetryProgress, Bodies
<1>25. CASE RecordAttempt
  <2>1. row' \in RowState
    BY <1>0, <1>2, <1>25, <1>job DEF RecordAttempt
  <2> QED
    BY <1>0, <1>1, <1>25, <2>1, TypeNext DEF RecordAttempt, Bodies
<1>26. CASE Land
  <2>1. row' \in RowState /\ writes' \subseteq 0..MaxLength
    BY <1>0, <1>26, <1>job DEF Land
  <2> QED
    BY <1>0, <1>26, <2>1, TypeNext DEF Land, Bodies
<1>27. CASE Lose
  BY <1>0, <1>27, TypeNext DEF Lose, Bodies
<1>28. CASE Crash
  BY <1>0, <1>1, <1>4, <1>28, TypeNext DEF Crash, Bodies
<1> QED
  BY <1>5, <1>6, <1>7, <1>8, <1>9, <1>10, <1>11, <1>12, <1>13, <1>14, <1>15, <1>16, <1>17, <1>18,
     <1>19, <1>20, <1>21, <1>22, <1>23, <1>24, <1>25, <1>26, <1>27, <1>28 DEF Next, Run

-----------------------------------------------------------------------------
(* Which step touches what.                                                *)

LEMMA Untouched ==
    ASSUME TypeOK, [Next]_vars
    PROVE  /\ runtime' = runtime
           /\ Author \/ (site' = site /\ used'.changes = used.changes)
           /\ SaveToc \/ toc' = toc
           /\ Open \/ SaveResume \/ ClearResume \/ resume' = resume
           /\ CacheSection \/ SaveSection \/ DeleteSuperseded \/ store' = store
           /\ Open \/ SaveSection \/ adopted' = adopted
           /\ Boundary \/ Claim \/ Land \/ Lose \/ writes' = writes
           /\ \/ Submit \/ YieldExecution \/ SaveRetryProgress \/ Land
              \/ row'.cursor = row.cursor
<1>1. runtime' = runtime
  BY DEF Next, Author, SectionUpdated, SectionRenamed, SectionAdded, LastSectionRemoved, Changes,
         Submit, Claim, Run, RestartCorrupt, Open, Digest, Boundary, KeepSection, FetchSection,
         CacheSection, SaveSection, SaveResume, YieldExecution, SaveToc, DeleteSuperseded,
         UpsertRecord, ClearResume, Settle, Fail, SectionGone, SaveRetryProgress, RecordAttempt,
         Land, Lose, Crash, vars
<1>2. Author \/ (site' = site /\ used'.changes = used.changes)
  <2>1. /\ [used EXCEPT !.jobs = @ + 1].changes = used.changes
        /\ [used EXCEPT !.interrupts = @ + 1].changes = used.changes
    BY DEF TypeOK, Bounds
  <2> QED
    BY <2>1
    DEF Next, Submit, Claim, Run, RestartCorrupt, Open, Digest, Boundary, KeepSection, FetchSection,
         CacheSection, SaveSection, SaveResume, YieldExecution, SaveToc, DeleteSuperseded,
         UpsertRecord, ClearResume, Settle, Fail, SectionGone, SaveRetryProgress, RecordAttempt,
         Land, Lose, Crash, vars
<1>3. SaveToc \/ toc' = toc
  BY DEF Next, Author, SectionUpdated, SectionRenamed, SectionAdded, LastSectionRemoved, Changes,
         Submit, Claim, Run, RestartCorrupt, Open, Digest, Boundary, KeepSection, FetchSection,
         CacheSection, SaveSection, SaveResume, YieldExecution, DeleteSuperseded,
         UpsertRecord, ClearResume, Settle, Fail, SectionGone, SaveRetryProgress, RecordAttempt,
         Land, Lose, Crash, vars
<1>4. Open \/ SaveResume \/ ClearResume \/ resume' = resume
  BY DEF Next, Author, SectionUpdated, SectionRenamed, SectionAdded, LastSectionRemoved, Changes,
         Submit, Claim, Run, RestartCorrupt, Digest, Boundary, KeepSection, FetchSection,
         CacheSection, SaveSection, YieldExecution, SaveToc, DeleteSuperseded,
         UpsertRecord, Settle, Fail, SectionGone, SaveRetryProgress, RecordAttempt,
         Land, Lose, Crash, vars
<1>5. CacheSection \/ SaveSection \/ DeleteSuperseded \/ store' = store
  BY DEF Next, Author, SectionUpdated, SectionRenamed, SectionAdded, LastSectionRemoved, Changes,
         Submit, Claim, Run, RestartCorrupt, Open, Digest, Boundary, KeepSection, FetchSection,
         SaveResume, YieldExecution, SaveToc,
         UpsertRecord, ClearResume, Settle, Fail, SectionGone, SaveRetryProgress, RecordAttempt,
         Land, Lose, Crash, vars
<1>6. Open \/ SaveSection \/ adopted' = adopted
  BY DEF Next, Author, SectionUpdated, SectionRenamed, SectionAdded, LastSectionRemoved, Changes,
         Submit, Claim, Run, RestartCorrupt, Digest, Boundary, KeepSection, FetchSection,
         CacheSection, SaveResume, YieldExecution, SaveToc, DeleteSuperseded,
         UpsertRecord, ClearResume, Settle, Fail, SectionGone, SaveRetryProgress, RecordAttempt,
         Land, Lose, Crash, vars
<1>7. Boundary \/ Claim \/ Land \/ Lose \/ writes' = writes
  BY DEF Next, Author, SectionUpdated, SectionRenamed, SectionAdded, LastSectionRemoved, Changes,
         Submit, Run, RestartCorrupt, Open, Digest, KeepSection, FetchSection,
         CacheSection, SaveSection, SaveResume, YieldExecution, SaveToc, DeleteSuperseded,
         UpsertRecord, ClearResume, Settle, Fail, SectionGone, SaveRetryProgress, RecordAttempt,
         Crash, vars
<1>8. Submit \/ YieldExecution \/ SaveRetryProgress \/ Land \/ row'.cursor = row.cursor
  <2>1. \A s \in {"none", "queued", "running"} : [row EXCEPT !.status = s].cursor = row.cursor
    BY DEF TypeOK
  <2> QED
    BY <2>1
    DEF Next, Author, SectionUpdated, SectionRenamed, SectionAdded, LastSectionRemoved, Changes,
         Claim, Run, RestartCorrupt, Open, Digest, Boundary, KeepSection, FetchSection,
         CacheSection, SaveSection, SaveResume, SaveToc, DeleteSuperseded,
         UpsertRecord, ClearResume, Settle, Fail, SectionGone, Failed, RecordAttempt,
         Lose, Crash, vars
<1> QED
  BY <1>1, <1>2, <1>3, <1>4, <1>5, <1>6, <1>7, <1>8, Zenon

\* A run's step stays in its pass over the sections, unless it opens a listing
\* or ends; only a save takes the run past a section it had to fetch.
LEMMA Onward ==
    ASSUME TypeOK, Places, [Next]_vars
    PROVE  \/ UNCHANGED exec
           \/ Open
           \/ exec'.pc \notin Opened /\ exec'.toc \in {<<>>, exec.toc}
           \/ /\ exec.pc \in Opened /\ exec'.pc \in Opened /\ Same(exec, exec')
              /\ SaveSection \/ Settled' \subseteq Settled
<1>0. /\ exec \in RunState /\ exec.pc \in Step /\ exec.body \in Date \union {0}
      /\ exec.at \in 0..MaxLength /\ row.cursor \in 0..MaxLength
  BY TypeFacts
<1>1. exec' = Idle => exec'.pc \notin Opened /\ exec'.toc \in {<<>>, exec.toc}
  BY IdleIs DEF Opened, InLoop, Behind
<1>2. ASSUME NEW p \in Step, NEW b \in Date \union {0},
             exec' = [exec EXCEPT !.pc = p] \/ exec' = [exec EXCEPT !.body = b, !.pc = p]
      PROVE  Same(exec, exec') /\ exec'.at = exec.at /\ exec'.pc = p
  BY <1>0, <1>2 DEF RunState, Same
<1>3. Same(exec, exec') /\ exec'.at = exec.at => Settled' \subseteq Settled
  BY DEF Same, Settled
<1>4. {"open", "boundary", "section", "cache", "save", "yield", "yielded", "toc", "supersede",
       "record", "clear", "settle", "drain", "attempt", "unsaved"} \subseteq Step
  BY DEF Step
<1>5. {"boundary", "section", "cache", "save", "yield", "yielded", "toc", "supersede",
       "record", "clear", "settle"} \subseteq Opened
  BY DEF Opened, InLoop, Behind
<1>6. {"open", "drain", "attempt", "unsaved"} \intersect Opened = {}
  BY DEF Opened, InLoop, Behind
<1>7. CASE Author \/ Submit \/ Land \/ Lose \/ UNCHANGED vars
  BY <1>7 DEF Author, SectionUpdated, SectionRenamed, SectionAdded, LastSectionRemoved, Changes,
              Submit, Land, Lose, vars
<1>8. CASE Claim
  <2>1. [Idle EXCEPT !.pc = "open", !.from = row.cursor].pc = "open"
        /\ [Idle EXCEPT !.pc = "open", !.from = row.cursor].toc = <<>>
    BY IdleIs DEF RunState
  <2> QED
    BY <1>6, <1>8, <2>1 DEF Claim
<1>9. CASE RestartCorrupt
  <2>1. exec'.pc = "open" /\ exec'.toc = exec.toc
    BY <1>0, <1>9 DEF RestartCorrupt, Restarted, RunState
  <2> QED
    BY <1>6, <2>1
<1>10. CASE Open
  BY <1>10
<1>11. CASE Digest \/ YieldExecution \/ Settle \/ RecordAttempt \/ Crash
  BY <1>1, <1>11 DEF Digest, YieldExecution, Settle, RecordAttempt, Crash
<1>12. CASE Boundary
  <2>1. ASSUME NEW p \in Step, Bounded(p)
        PROVE  Same(exec, exec') /\ exec'.at = exec.at /\ exec'.pc = p
    BY <1>0, <2>1, AtBoundaryIs DEF Bounded
  <2>2. Same(exec, exec') /\ exec'.at = exec.at /\ exec'.pc \in {"section", "yield"}
    <3>1. \/ Bounded("section") \/ Bounded("yield") \/ exec' = [exec EXCEPT !.pc = "section"]
      BY <1>12 DEF Boundary
    <3> QED
      BY <1>0, <1>2, <1>4, <2>1, <3>1
  <2> QED
    BY <1>3, <1>5, <1>12, <2>2 DEF Boundary
<1>13. CASE KeepSection
  <2>0. exec.pc \in InLoop
    BY <1>13 DEF KeepSection, InLoop
  <2>1. Here \in 0..Len(exec.toc) /\ Here \in Nat /\ exec.at \in Nat
    BY <1>0, <2>0, HereIs, TypeFacts, ListingFacts DEF Here
  <2>2. Same(exec, exec') /\ exec'.at = Here /\ exec'.pc \in {"boundary", "toc"}
    BY <1>0, <1>13, <2>1, LoopedIs DEF KeepSection
  <2>3. Settled' \subseteq Settled
    <3>1. ASSUME NEW i \in Settled' PROVE i \in Settled
      <4>1. i \in DOMAIN exec.toc /\ (i <= exec.at + 1 \/ i \notin exec.plan)
        BY <2>2, <3>1 DEF Settled, Same, Here
      <4>2. i \in Nat
        BY <4>1, TypeFacts, ListingFacts
      <4>3. i <= exec.at \/ i = Here \/ i \notin exec.plan
        BY <2>1, <4>1, <4>2 DEF Here
      <4> QED
        BY <1>13, <4>1, <4>3 DEF Settled, KeepSection
    <3> QED
      BY <3>1
  <2> QED
    BY <1>5, <1>13, <2>2, <2>3 DEF KeepSection
<1>14. CASE FetchSection \/ CacheSection \/ SaveResume
  <2>1. Same(exec, exec') /\ exec'.at = exec.at /\ exec'.pc \in {"cache", "save", "yielded"}
    <3>1. CASE FetchSection
      <4>1. site[Here].date \in Date \union {0}
        BY <3>1, TypeFacts, ListingFacts DEF FetchSection
      <4> QED
        BY <1>2, <1>4, <3>1, <4>1 DEF FetchSection
    <3>2. CASE CacheSection \/ SaveResume
      BY <1>0, <1>2, <1>4, <3>2 DEF CacheSection, SaveResume
    <3> QED
      BY <1>14, <3>1, <3>2
  <2> QED
    BY <1>3, <1>5, <1>14, <2>1 DEF FetchSection, CacheSection, SaveResume
<1>15. CASE SaveSection
  <2>0. exec.pc \in InLoop
    BY <1>15 DEF SaveSection, InLoop
  <2> DEFINE run == [exec EXCEPT !.body = 0]
             yielded == [exec EXCEPT !.body = 0, !.pc = "yield"]
  <2>1. exec' = Looped(run, Here) \/ exec' = yielded
    BY <1>15 DEF SaveSection
  <2>2. /\ run \in RunState /\ run.toc = exec.toc /\ Same(exec, run)
        /\ Same(exec, yielded) /\ yielded.pc = "yield"
    BY <1>0, <1>4 DEF RunState, Same
  <2> HIDE DEF run, yielded
  <2>3. Here \in 0..Len(run.toc)
    BY <2>0, <2>2, HereIs, TypeFacts, ListingFacts
  <2>4. LET next == Looped(run, Here) IN Same(run, next) /\ next.pc \in {"boundary", "toc"}
    BY <2>2, <2>3, LoopedIs
  <2>5. Same(exec, exec') /\ exec'.pc \in {"boundary", "toc", "yield"}
    BY <2>1, <2>2, <2>4 DEF Same
  <2> QED
    BY <1>5, <1>15, <2>5 DEF SaveSection
<1>16. CASE SaveToc \/ DeleteSuperseded \/ UpsertRecord \/ ClearResume
  <2>1. \/ UNCHANGED exec
        \/ Same(exec, exec') /\ exec'.at = exec.at /\ exec'.pc \in {"supersede", "record", "clear", "settle"}
    BY <1>0, <1>2, <1>4, <1>16 DEF SaveToc, DeleteSuperseded, UpsertRecord, ClearResume
  <2> QED
    BY <1>3, <1>5, <1>16, <2>1 DEF SaveToc, DeleteSuperseded, UpsertRecord, ClearResume
<1>17. CASE Fail \/ SectionGone
  <2>1. exec' = [exec EXCEPT !.pc = "drain"] \/ exec' = Idle
    BY <1>17 DEF Fail, SectionGone, Failed
  <2> QED
    BY <1>0, <1>1, <1>2, <1>4, <1>6, <2>1 DEF Same
<1>18. CASE SaveRetryProgress
  <2>1. exec' = [exec EXCEPT !.pc = "attempt"] \/ exec' = [exec EXCEPT !.pc = "unsaved"]
    BY <1>18 DEF SaveRetryProgress
  <2> QED
    BY <1>0, <1>2, <1>4, <1>6, <2>1 DEF Same
<1> QED
  BY <1>7, <1>8, <1>9, <1>10, <1>11, <1>12, <1>13, <1>14, <1>15, <1>16, <1>17, <1>18
  DEF Next, Run

LEMMA PlacesStep ==
    ASSUME TypeOK, Places, Dates, Native, [Next]_vars
    PROVE  Places'
<1>0. /\ exec \in RunState /\ exec.pc \in Step /\ exec.body \in Date \union {0}
      /\ exec.at \in 0..MaxLength /\ row.cursor \in 0..MaxLength /\ exec.toc \in Listing
      /\ site \in Listing /\ Len(exec.toc) \in Nat /\ Worker' = Worker
  BY TypeFacts, ListingFacts, Untouched DEF Worker
<1>2. exec'.pc \in {"idle", "open", "drain"} => Places'
  BY DEF Places, InLoop, Published, Behind
<1>3. ASSUME NEW p \in Step, NEW b \in Date \union {0},
             exec' = [exec EXCEPT !.pc = p] \/ exec' = [exec EXCEPT !.body = b, !.pc = p]
      PROVE  /\ exec'.pc = p /\ exec'.at = exec.at /\ exec'.toc = exec.toc
             /\ exec'.boundary = exec.boundary
             /\ exec'.body = IF exec' = [exec EXCEPT !.pc = p] THEN exec.body ELSE b
  BY <1>0, <1>3 DEF RunState
<1>4. {"section", "cache", "save", "yield", "yielded", "toc", "supersede",
       "record", "clear", "settle", "drain", "attempt", "unsaved"} \subseteq Step
  BY DEF Step
<1>5. exec' = Idle => Places'
  BY <1>2, IdleIs
<1>6. ASSUME UNCHANGED <<exec, toc, row>>, writes' = {} \/ UNCHANGED writes \/ writes # {}
      PROVE  Places'
  BY <1>0, <1>6 DEF Places, Here
<1>7. CASE Author \/ Lose \/ UNCHANGED vars
  <2>1. UNCHANGED <<exec, toc, row>> /\ (UNCHANGED writes \/ writes # {})
    BY <1>7 DEF Author, SectionUpdated, SectionRenamed, SectionAdded, LastSectionRemoved, Changes,
                Lose, vars
  <2> QED
    BY <1>6, <2>1
<1>8. CASE Submit
  BY <1>2, <1>8 DEF Submit
<1>9. CASE Claim
  <2>1. exec'.pc = "open"
    BY <1>9, IdleIs DEF Claim, RunState
  <2> QED
    BY <1>2, <2>1
<1>10. CASE RestartCorrupt
  <2>1. exec'.pc = "open"
    BY <1>0, <1>10 DEF RestartCorrupt, Restarted, RunState
  <2> QED
    BY <1>2, <2>1
<1>11. CASE Open
  BY <1>11, OpenIs DEF Places, InLoop, Behind, Published
<1>12. CASE Digest \/ YieldExecution \/ Settle \/ RecordAttempt \/ Crash
  BY <1>5, <1>12 DEF Digest, YieldExecution, Settle, RecordAttempt, Crash
<1>13. CASE Boundary
  <2>1. ASSUME NEW p \in Step, Bounded(p)
        PROVE  exec'.at = exec.at /\ exec'.pc = p /\ exec'.toc = exec.toc
    BY <1>0, <2>1, AtBoundaryIs DEF Bounded, Same
  <2>2. exec'.at = exec.at /\ exec'.toc = exec.toc /\ exec'.pc \in {"section", "yield"}
    <3>1. \/ Bounded("section") \/ Bounded("yield") \/ exec' = [exec EXCEPT !.pc = "section"]
      BY <1>13 DEF Boundary
    <3> QED
      BY <1>0, <1>3, <1>4, <2>1, <3>1
  <2> QED
    BY <1>13, <2>2 DEF Places, Boundary, InLoop, Behind, Published
<1>14. CASE KeepSection
  <2>0. exec.pc \in InLoop
    BY <1>14 DEF KeepSection, InLoop
  <2>1. Here \in 0..Len(exec.toc)
    BY <1>0, <2>0, HereIs
  <2>2. exec'.toc = exec.toc /\ exec'.at = Here
        /\ \/ exec'.pc = "boundary" /\ Here < Len(exec.toc)
           \/ exec'.pc = "toc" /\ Here = Len(exec.toc)
    BY <1>0, <1>14, <2>1, LoopedIs DEF KeepSection, Same
  <2> QED
    BY <2>2 DEF Places, InLoop, Behind, Published
<1>15. CASE FetchSection
  <2>0. exec.pc \in InLoop /\ exec.pc = "section"
    BY <1>15 DEF FetchSection, InLoop
  <2>1. site[Here].date \in Date \union {0}
    BY <1>0, <1>15, ListingFacts DEF FetchSection
  <2>2. exec'.at = exec.at /\ exec'.toc = exec.toc /\ exec'.pc \in {"cache", "save"}
        /\ exec'.body = site[Here].date
    <3> DEFINE p == IF Existed(Here) THEN "cache" ELSE "save"
    <3>1. exec' = [exec EXCEPT !.body = site[Here].date, !.pc = p] /\ p \in Step /\ p \in {"cache", "save"}
      BY <1>4, <1>15 DEF FetchSection
    <3> HIDE DEF p
    <3> QED
      BY <1>0, <2>1, <3>1 DEF RunState
  <2>3. exec.toc[Here].date <= site[Here].date
    BY <1>15, <2>0, HereIs DEF FetchSection, Dates, Past
  <2>4. exec.toc[Here].date \in Nat /\ site[Here].date \in Nat
    BY <1>0, <1>15, <2>0, HereIs, ListingFacts, TypeFacts DEF FetchSection, Date
  <2> QED
    BY <2>0, <2>2, <2>3, <2>4 DEF Places, InLoop, Behind, Published, Here
<1>16. CASE CacheSection
  <2>1. exec'.pc = "save" /\ exec'.at = exec.at /\ exec'.toc = exec.toc /\ exec'.body = exec.body
    BY <1>0, <1>3, <1>4, <1>16 DEF CacheSection
  <2> QED
    BY <1>16, <2>1 DEF Places, CacheSection, InLoop, Behind, Published, Here
<1>17. CASE SaveSection
  <2>0. exec.pc \in InLoop /\ exec.at < Len(exec.toc)
    BY <1>17 DEF SaveSection, InLoop, Places
  <2> DEFINE run == [exec EXCEPT !.body = 0]
             yielded == [exec EXCEPT !.body = 0, !.pc = "yield"]
  <2>1. exec' = Looped(run, Here) \/ exec' = yielded
    BY <1>17 DEF SaveSection
  <2>2. /\ run \in RunState /\ run.toc = exec.toc
        /\ yielded.toc = exec.toc /\ yielded.at = exec.at /\ yielded.pc = "yield"
    BY <1>0, <1>4 DEF RunState
  <2> HIDE DEF run, yielded
  <2>3. Here \in 0..Len(run.toc)
    BY <1>0, <2>0, <2>2, HereIs
  <2>4. LET next == Looped(run, Here)
        IN  /\ next.toc = exec.toc /\ next.at = Here
            /\ \/ next.pc = "boundary" /\ Here < Len(exec.toc)
               \/ next.pc = "toc" /\ Here = Len(exec.toc)
    BY <2>2, <2>3, LoopedIs DEF Same
  <2> QED
    BY <2>0, <2>1, <2>2, <2>4 DEF Places, InLoop, Behind, Published
<1>18. CASE SaveResume
  <2>1. exec'.pc = "yielded" /\ exec'.at = exec.at /\ exec'.toc = exec.toc
    BY <1>0, <1>3, <1>4, <1>18 DEF SaveResume
  <2> QED
    BY <1>18, <2>1 DEF Places, SaveResume, InLoop, Behind, Published
<1>19. CASE SaveToc
  <2>1. exec'.pc = "supersede" /\ exec'.at = exec.at /\ exec'.toc = exec.toc /\ toc' = exec.toc
    BY <1>0, <1>3, <1>4, <1>19 DEF SaveToc
  <2> QED
    BY <1>19, <2>1 DEF Places, SaveToc, InLoop, Behind, Published
<1>20. CASE DeleteSuperseded \/ UpsertRecord \/ ClearResume
  <2>1. exec.pc \in Published /\ exec.pc \in Behind /\ toc' = toc /\ UNCHANGED <<row, writes>>
    BY <1>20 DEF DeleteSuperseded, UpsertRecord, ClearResume, Published, Behind
  <2>2. \/ UNCHANGED exec
        \/ exec'.pc \in {"record", "clear", "settle"} /\ exec'.at = exec.at /\ exec'.toc = exec.toc
    BY <1>0, <1>3, <1>4, <1>20 DEF DeleteSuperseded, UpsertRecord, ClearResume
  <2>3. UNCHANGED exec => Places'
    BY <1>6, <2>1
  <2> QED
    BY <2>1, <2>2, <2>3 DEF Places, InLoop, Behind, Published
<1>21. CASE Fail \/ SectionGone
  <2>1. exec' = [exec EXCEPT !.pc = "drain"] \/ exec' = Idle
    BY <1>21 DEF Fail, SectionGone, Failed
  <2> QED
    BY <1>0, <1>2, <1>3, <1>4, <1>5, <2>1
<1>22. CASE SaveRetryProgress
  <2>1. exec'.pc \in {"attempt", "unsaved"} /\ exec'.boundary = exec.boundary
    BY <1>0, <1>3, <1>4, <1>22 DEF SaveRetryProgress
  <2>2. writes' = writes /\ (Worker => writes = {})
    BY <1>22 DEF SaveRetryProgress, Drained
  <2>3. exec'.pc = "attempt" /\ exec.boundary # None => row'.cursor = exec.boundary
    <3>1. ASSUME exec' = [exec EXCEPT !.pc = "unsaved"]
          PROVE  exec'.pc # "attempt"
      BY <1>0, <1>3, <1>4, <3>1
    <3>2. exec' = [exec EXCEPT !.pc = "unsaved"]
          \/ (exec.boundary # None => row' = [row EXCEPT !.cursor = exec.boundary])
      BY <1>22 DEF SaveRetryProgress
    <3>3. row \in RowState
      BY TypeFacts
    <3> QED
      BY <3>1, <3>2, <3>3 DEF RowState
  <2> QED
    BY <1>0, <2>1, <2>2, <2>3 DEF Places, InLoop, Behind, Published
<1>23. CASE Land
  <2>1. writes # {} /\ UNCHANGED <<exec, toc>>
    BY <1>23 DEF Land
  <2>2. exec.pc \in {"attempt", "unsaved"} => ~Worker
    BY <2>1 DEF Places
  <2> QED
    BY <1>0, <2>1, <2>2 DEF Places, Here
<1> QED
  BY <1>7, <1>8, <1>9, <1>10, <1>11, <1>12, <1>13, <1>14, <1>15, <1>16, <1>17, <1>18,
     <1>19, <1>20, <1>21, <1>22, <1>23 DEF Next, Run

LEMMA DatesStep ==
    ASSUME TypeOK, Places, Dates, Native, [Next]_vars
    PROVE  Dates'
<1>0. /\ site \in Listing /\ toc \in Listing /\ resume \in Listing /\ exec.toc \in Listing
      /\ used.changes \in Nat /\ MaxChanges \in Nat
  BY TypeFacts
<1>1. \A listing \in Listing : \A i \in DOMAIN listing : listing[i].date \in Nat /\ i \in Nat
  <2>1. Date \subseteq Nat
    BY <1>0 DEF Date
  <2> QED
    BY <2>1, ListingFacts
<1>2. Past(<<>>)
  BY EmptyListing DEF Past
<1>3. DOMAIN <<>> = {}
  BY EmptyListing
<1>4. exec'.toc \in {<<>>, exec.toc, site}
  <2>1. Open => exec'.toc = site
    BY OpenIs
  <2> QED
    BY <2>1, Onward DEF Same
<1>5. CASE Author
  <2>1. /\ UNCHANGED <<toc, resume, exec>> /\ used'.changes = used.changes + 1 /\ site' \in Listing
        /\ \A i \in DOMAIN site' :
              /\ site'[i].date <= used.changes + 2
              /\ i \in DOMAIN site => site[i].date <= site'[i].date
              /\ i \notin DOMAIN site => site'[i].date = used.changes + 2
    BY <1>5, AuthorIs DEF Dates
  <2>2. ASSUME NEW listing \in Listing, Past(listing)
        PROVE  Past(listing)'
    <3>1. ASSUME NEW i \in DOMAIN listing
          PROVE  /\ listing[i].date <= used.changes + 2
                 /\ i \in DOMAIN site' => listing[i].date <= site'[i].date
      BY <1>0, <1>1, <2>1, <2>2 DEF Past
    <3> QED
      BY <1>0, <2>1, <3>1 DEF Past
  <2>3. Past(site)'
    BY <1>0, <1>1, <2>1 DEF Past
  <2>4. Past(toc)' /\ Past(resume)' /\ Past(exec.toc)'
    BY <1>0, <2>1, <2>2 DEF Dates
  <2> QED
    BY <2>1, <2>3, <2>4 DEF Dates
<1>6. CASE ~Author
  <2>1. site' = site /\ used'.changes = used.changes
    BY <1>6, Untouched
  <2>2. \A listing : Past(listing)' <=> Past(listing)
    BY <2>1 DEF Past
  <2>3. toc' \in {toc, exec.toc}
    BY Untouched DEF SaveToc
  <2>4. ASSUME resume' # resume, resume' # <<>>
        PROVE  /\ exec.pc = "yield" /\ exec.at \in 0..Len(exec.toc)
               /\ resume' = SubSeq(exec.toc, 1, exec.at)
    <3>1. SaveResume
      BY <2>4, Untouched DEF Open, ClearResume
    <3>2. exec.pc = "yield" /\ resume' = SubSeq(exec.toc, 1, exec.at)
      BY <2>4, <3>1 DEF SaveResume
    <3>3. exec.at \in Nat /\ exec.at < Len(exec.toc) /\ Len(exec.toc) \in Nat
      BY <1>0, <3>2, TypeFacts, ListingFacts DEF Places, InLoop
    <3> QED
      BY <3>2, <3>3
  <2>5. ASSUME resume' # resume, resume' # <<>>
        PROVE  \A i \in DOMAIN resume' : i \in DOMAIN exec.toc /\ resume'[i] = exec.toc[i]
    <3>1. DOMAIN resume' = 1..exec.at /\ \A i \in 1..exec.at : resume'[i] = exec.toc[i]
      BY <1>0, <2>4, <2>5, Prefix
    <3>2. DOMAIN exec.toc = 1..Len(exec.toc) /\ Len(exec.toc) \in Nat /\ exec.at \in 0..Len(exec.toc)
      BY <1>0, <2>4, <2>5, ListingFacts
    <3> QED
      BY <3>1, <3>2
  <2>6. Past(site') /\ Past(toc') /\ Past(resume') /\ Past(exec'.toc)
    <3>1. Past(site') /\ Past(toc') /\ Past(exec'.toc)
      BY <1>2, <1>4, <2>1, <2>3 DEF Dates
    <3>2. Past(resume')
      BY <1>2, <2>5 DEF Dates, Past
    <3> QED
      BY <3>1, <3>2
  <2>7. ASSUME exec'.pc \in Opened
        PROVE  /\ \A i \in DOMAIN toc' \intersect DOMAIN exec'.toc : toc'[i].date <= exec'.toc[i].date
               /\ \A i \in DOMAIN resume' \intersect DOMAIN exec'.toc : resume'[i].date <= exec'.toc[i].date
    <3>1. CASE Open
      <4>1. exec'.toc = site /\ toc' = toc /\ (resume' = resume \/ resume' = <<>>)
        BY <3>1, OpenIs DEF Open
      <4> QED
        BY <1>3, <4>1 DEF Dates, Past
    <3>2. CASE ~Open
      <4>1. exec.pc \in Opened /\ exec'.toc = exec.toc
        BY <2>7, <3>2, Onward DEF Same
      <4>2. \A i \in DOMAIN exec.toc : exec.toc[i].date <= exec.toc[i].date
        BY <1>0, <1>1
      <4>3. \A i \in DOMAIN toc' \intersect DOMAIN exec.toc : toc'[i].date <= exec.toc[i].date
        BY <2>3, <4>1, <4>2 DEF Dates
      <4>4. \A i \in DOMAIN resume' \intersect DOMAIN exec.toc : resume'[i].date <= exec.toc[i].date
        BY <1>3, <2>5, <4>1, <4>2 DEF Dates
      <4> QED
        BY <4>1, <4>3, <4>4
    <3> QED
      BY <3>1, <3>2
  <2> QED
    BY <2>2, <2>6, <2>7 DEF Dates
<1> QED
  BY <1>5, <1>6

\* The cursors a run carries: it starts from the row's, and only a boundary
\* it reached replaces the last one.
LEMMA Marks ==
    ASSUME TypeOK, Places, [Next]_vars
    PROVE  /\ exec'.from \in {0, exec.from, row.cursor}
           /\ \/ exec'.boundary \in {None, 0, exec.boundary}
              \/ Worker /\ exec.pc = "boundary" /\ exec'.boundary = exec.at
           /\ exec'.pc \in {"yield", "yielded"} => Worker \/ exec.pc \in {"yield", "yielded"}
           /\ exec'.pc = "save" => UNCHANGED <<exec, store>> \/ FetchSection \/ CacheSection
<1> DEFINE Right == /\ exec'.from \in {0, exec.from, row.cursor}
                    /\ exec'.boundary \in {None, 0, exec.boundary}
                    /\ exec'.pc \notin {"yield", "yielded", "save"}
<1>0. /\ exec \in RunState /\ exec.pc \in Step /\ exec.body \in Date \union {0}
      /\ exec.at \in 0..MaxLength /\ row.cursor \in 0..MaxLength /\ exec.toc \in Listing
  BY TypeFacts
<1>1. exec' = Idle => Right
  BY IdleIs
<1>2. ASSUME NEW p \in Step, NEW b \in Date \union {0},
             exec' = [exec EXCEPT !.pc = p] \/ exec' = [exec EXCEPT !.body = b, !.pc = p]
      PROVE  exec'.from = exec.from /\ exec'.boundary = exec.boundary /\ exec'.pc = p
  BY <1>0, <1>2 DEF RunState
<1>3. {"section", "cache", "save", "yield", "yielded", "supersede", "record", "clear", "settle",
       "drain", "attempt", "unsaved"} \subseteq Step
  BY DEF Step
<1>4. ASSUME NEW p \in Step, NEW b \in Date \union {0}, p \notin {"yield", "yielded", "save"},
             exec' = [exec EXCEPT !.pc = p] \/ exec' = [exec EXCEPT !.body = b, !.pc = p]
      PROVE  Right
  BY <1>2, <1>4
<1>5. CASE Author \/ Submit \/ Land \/ Lose \/ UNCHANGED vars
  BY <1>5 DEF Author, SectionUpdated, SectionRenamed, SectionAdded, LastSectionRemoved, Changes,
              Submit, Land, Lose, vars
<1>6. CASE Claim
  <2>1. LET run == [Idle EXCEPT !.pc = "open", !.from = row.cursor]
        IN  run.pc = "open" /\ run.from = row.cursor /\ run.boundary = None
    BY IdleIs DEF RunState
  <2> QED
    BY <1>6, <2>1 DEF Claim
<1>7. CASE RestartCorrupt
  <2>1. exec'.pc = exec.pc /\ exec'.from = 0 /\ exec'.boundary = 0 /\ exec.pc = "open"
    BY <1>0, <1>7 DEF RestartCorrupt, Restarted, RunState
  <2> QED
    BY <2>1
<1>8. CASE Open
  BY <1>8, OpenIs
<1>9. CASE Digest \/ YieldExecution \/ Settle \/ RecordAttempt \/ Crash
  BY <1>1, <1>9 DEF Digest, YieldExecution, Settle, RecordAttempt, Crash
<1>10. CASE Boundary
  <2>1. ASSUME NEW p \in Step, Bounded(p)
        PROVE  exec'.from = exec.from /\ exec'.boundary = exec.at /\ exec'.pc = p
    BY <1>0, <2>1, AtBoundaryIs DEF Bounded, Same
  <2>2. CASE Worker /\ (Bounded("section") \/ Bounded("yield"))
    BY <1>3, <1>10, <2>1, <2>2 DEF Boundary
  <2>3. CASE exec' = [exec EXCEPT !.pc = "section"]
    BY <1>0, <1>3, <1>4, <2>3
  <2> QED
    BY <1>10, <2>2, <2>3 DEF Boundary, MayYield
<1>11. CASE KeepSection
  <2>1. exec.pc \in InLoop
    BY <1>11 DEF KeepSection, InLoop
  <2>2. Here \in 0..Len(exec.toc)
    BY <1>0, <2>1, HereIs, ListingFacts
  <2> QED
    BY <1>0, <1>11, <2>2, LoopedIs DEF KeepSection, Same
<1>12. CASE FetchSection
  <2>1. site[Here].date \in Date \union {0}
    BY <1>12, TypeFacts, ListingFacts DEF FetchSection
  <2>2. exec'.from = exec.from /\ exec'.boundary = exec.boundary /\ exec'.pc \in {"cache", "save"}
    BY <1>2, <1>3, <1>12, <2>1 DEF FetchSection
  <2> QED
    BY <1>12, <2>2
<1>13. CASE CacheSection
  <2>1. exec' = [exec EXCEPT !.pc = "save"]
    BY <1>13 DEF CacheSection
  <2> QED
    BY <1>0, <1>2, <1>3, <1>13, <2>1
<1>14. CASE SaveSection
  <2>1. exec.pc \in InLoop
    BY <1>14 DEF SaveSection, InLoop
  <2> DEFINE run == [exec EXCEPT !.body = 0]
             yielded == [exec EXCEPT !.body = 0, !.pc = "yield"]
  <2>2. exec' = Looped(run, Here) \/ (Worker /\ exec' = yielded)
    BY <1>14 DEF SaveSection, MayYield
  <2>3. /\ run \in RunState /\ run.toc = exec.toc /\ run.from = exec.from /\ run.boundary = exec.boundary
        /\ yielded.from = exec.from /\ yielded.boundary = exec.boundary /\ yielded.pc = "yield"
    BY <1>0, <1>3 DEF RunState
  <2> HIDE DEF run, yielded
  <2>4. Here \in 0..Len(run.toc)
    BY <1>0, <2>1, <2>3, HereIs, ListingFacts
  <2>5. LET next == Looped(run, Here)
        IN  next.from = exec.from /\ next.boundary = exec.boundary /\ next.pc \in {"boundary", "toc"}
    BY <2>3, <2>4, LoopedIs DEF Same
  <2> QED
    BY <2>2, <2>3, <2>5
<1>15. CASE SaveResume
  <2>1. exec' = [exec EXCEPT !.pc = "yielded"] /\ exec.pc = "yield"
    BY <1>15 DEF SaveResume
  <2> QED
    BY <1>0, <1>2, <1>3, <2>1
<1>16. CASE SaveToc \/ DeleteSuperseded \/ UpsertRecord \/ ClearResume \/ SaveRetryProgress
  <2>1. \/ exec' = exec /\ exec.pc = "supersede"
        \/ \E p \in {"supersede", "record", "clear", "settle", "attempt", "unsaved"} : exec' = [exec EXCEPT !.pc = p]
    BY <1>16 DEF SaveToc, DeleteSuperseded, UpsertRecord, ClearResume, SaveRetryProgress
  <2>2. ASSUME NEW p \in {"supersede", "record", "clear", "settle", "attempt", "unsaved"},
               exec' = [exec EXCEPT !.pc = p]
        PROVE  Right
    BY <1>0, <1>3, <1>4, <2>2
  <2> QED
    BY <2>1, <2>2
<1>17. CASE Fail \/ SectionGone
  <2>1. exec' = [exec EXCEPT !.pc = "drain"] \/ exec' = Idle
    BY <1>17 DEF Fail, SectionGone, Failed
  <2> QED
    BY <1>0, <1>1, <1>3, <1>4, <2>1
<1> QED
  BY <1>5, <1>6, <1>7, <1>8, <1>9, <1>10, <1>11, <1>12, <1>13, <1>14, <1>15, <1>16, <1>17
  DEF Next, Run

-----------------------------------------------------------------------------
(* Bodies that come and go.                                                *)

\* The dates of the bodies, and of the body in a run's hands.
LEMMA StoreFacts ==
    ASSUME TypeOK
    PROVE  /\ store \in [Index -> [Name -> Date \union {0}]]
           /\ \A i \in Index, n \in Name : store[i][n] \in Nat
           /\ Date \subseteq Nat
BY BoundAssumption DEF TypeOK, Date

\* A body that is saved.
LEMMA Saved ==
    ASSUME TypeOK, Places, SaveSection
    PROVE  /\ Here \in Index /\ Here \in DOMAIN exec.toc /\ exec.toc[Here].name \in Name
           /\ exec.body \in Nat /\ exec.body # 0 /\ exec.body >= exec.toc[Here].date
           /\ \A i \in Index, n \in Name : store'[i][n] =
                 IF i = Here /\ n = exec.toc[Here].name THEN exec.body ELSE store[i][n]
<1>1. /\ exec.pc \in InLoop /\ exec.body >= exec.toc[Here].date /\ exec.body \in Date \union {0}
  BY TypeFacts DEF SaveSection, InLoop, Places
<1>2. /\ Here \in Index /\ Here \in DOMAIN exec.toc /\ exec.toc[Here].name \in Name
      /\ exec.toc \in Listing
  BY <1>1, HereIs, TypeFacts
<1>3. exec.toc[Here].date \in Date
  BY <1>2, ListingFacts
<1>4. exec.body \in Nat /\ exec.body # 0
  <2>1. \A d \in Date : d \in Nat /\ d >= 1
    BY BoundAssumption DEF Date
  <2>2. \A b, d : b \in Date \union {0} /\ d \in Date /\ b >= d => b \in Nat /\ b # 0
    BY <2>1
  <2> QED
    BY <1>1, <1>3, <2>2
<1>5. \A i \in Index, n \in Name : store'[i][n] =
         IF i = Here /\ n = exec.toc[Here].name THEN exec.body ELSE store[i][n]
  BY <1>2, StoreFacts DEF SaveSection
<1> QED
  BY <1>1, <1>2, <1>4, <1>5

\* A superseded body that is deleted: its section has another one.
LEMMA Deleted ==
    ASSUME TypeOK, Places, DeleteSuperseded, store' # store
    PROVE  /\ Worker /\ toc = exec.toc /\ UNCHANGED exec /\ exec.pc = "supersede"
           /\ \E k \in DOMAIN exec.toc, m \in Name :
                 /\ m # exec.toc[k].name
                 /\ \A i \in Index, n \in Name :
                       store'[i][n] = IF i = k /\ n = m THEN 0 ELSE store[i][n]
<1>1. PICK k \in Superseded : store' = [store EXCEPT ![k][exec.old[k].name] = 0] /\ UNCHANGED exec
  BY DEF DeleteSuperseded
<1>2. /\ Worker /\ k \in DOMAIN exec.toc /\ k \in DOMAIN exec.old
      /\ exec.old[k].name # exec.toc[k].name
  BY <1>1 DEF Superseded
<1>3. k \in Index /\ exec.old[k].name \in Name
  BY <1>2, TypeFacts, ListingFacts
<1>4. \A i \in Index, n \in Name :
         store'[i][n] = IF i = k /\ n = exec.old[k].name THEN 0 ELSE store[i][n]
  BY <1>1, <1>3, StoreFacts
<1>5. toc = exec.toc /\ exec.pc = "supersede"
  BY DEF DeleteSuperseded, Places, Published, Behind
<1> QED
  BY <1>1, <1>2, <1>3, <1>4, <1>5

\* On the Worker no step takes away the last body of a section, nor a body the
\* stored listing or the settled part of the run's listing names.
LEMMA BodiesStay ==
    ASSUME TypeOK, Places, Backed, Worker, [Next]_vars
    PROVE  /\ \A i \in Index : Existed(i) => Existed(i)'
           /\ \A i \in DOMAIN toc : Stored(i, toc[i].name) => store'[i][toc[i].name] # 0
           /\ exec.pc \in Opened => \A i \in Settled :
                 Stored(i, exec.toc[i].name) => store'[i][exec.toc[i].name] # 0
<1>0. /\ toc \in Listing /\ exec.toc \in Listing
      /\ \A i \in DOMAIN toc : i \in Index /\ toc[i].name \in Name
      /\ \A i \in DOMAIN exec.toc : i \in Index /\ exec.toc[i].name \in Name
      /\ Settled \subseteq DOMAIN exec.toc
  BY TypeFacts, ListingFacts DEF Settled
<1>1. CASE \A i \in Index, n \in Name : Stored(i, n) => store'[i][n] # 0
  <2>1. \A i \in Index : Existed(i) => Existed(i)'
    BY <1>1 DEF Existed, Stored
  <2> QED
    BY <1>0, <1>1, <2>1
<1>2. CASE store' = store
  BY <1>1, <1>2 DEF Stored
<1>3. CASE CacheSection
  BY <1>2, <1>3 DEF CacheSection, CacheTakes
<1>4. CASE SaveSection
  BY <1>1, <1>4, Saved DEF Stored
<1>5. CASE DeleteSuperseded /\ store' # store
  <2>1. PICK k \in DOMAIN exec.toc, m \in Name :
           /\ m # exec.toc[k].name
           /\ \A i \in Index, n \in Name :
                 store'[i][n] = IF i = k /\ n = m THEN 0 ELSE store[i][n]
    BY <1>5, Deleted
  <2>2. toc = exec.toc /\ exec.pc = "supersede"
    BY <1>5, Deleted
  <2>3. k \in Settled
    BY <2>1, <2>2, TypeFacts, ListingFacts DEF Places, Behind, Settled
  <2>4. Stored(k, exec.toc[k].name)
    BY <2>2, <2>3 DEF Backed, Opened, Behind
  <2>5. \A i \in DOMAIN exec.toc :
           Stored(i, exec.toc[i].name) => store'[i][exec.toc[i].name] # 0
    BY <1>0, <2>1 DEF Stored
  <2>6. \A i \in Index : Existed(i) => Existed(i)'
    <3>1. Existed(k)'
      BY <1>0, <2>1, <2>4, <2>5 DEF Existed, Stored
    <3>2. \A i \in Index : i # k /\ Existed(i) => Existed(i)'
      BY <2>1 DEF Existed, Stored
    <3> QED
      BY <3>1, <3>2
  <2> QED
    BY <1>0, <2>2, <2>5, <2>6
<1> QED
  BY <1>2, <1>3, <1>4, <1>5, Untouched

-----------------------------------------------------------------------------
(* The steps of the last three conjuncts.                                  *)

LEMMA NativeStep ==
    ASSUME TypeOK, Places, Native, [Next]_vars
    PROVE  Native'
<1> SUFFICES ASSUME ~Worker
             PROVE  Native'
  BY Untouched DEF Native, Worker
<1>0. /\ row.cursor = 0 /\ exec.from = 0 /\ exec.boundary \in {None, 0}
      /\ resume = <<>> /\ writes = {} /\ adopted = {}
      /\ \A i \in Index, m, n \in Name : Stored(i, m) /\ Stored(i, n) => m = n
      /\ exec.pc = "save" => ~Existed(Here)
      /\ exec.pc \notin {"yield", "yielded"}
  BY DEF Native
<1>1. /\ ~MayYield /\ Len(resume) = 0 /\ Restored = 0
  BY <1>0, EmptyListing DEF MayYield, Restored
<1>2. exec \in RunState /\ row \in RowState /\ exec.pc \in Step /\ exec.body \in Date \union {0}
  BY TypeFacts
<1>3. row'.cursor = 0
  <2>1. CASE Submit
    BY <2>1 DEF Submit, NoJob
  <2>2. CASE YieldExecution \/ Land
    BY <1>0, <2>2 DEF YieldExecution, Land
  <2>3. CASE SaveRetryProgress
    <3>1. row' = row \/ row' = [row EXCEPT !.cursor = 0]
      BY <1>0, <2>3 DEF SaveRetryProgress
    <3> QED
      BY <1>0, <1>2, <3>1 DEF RowState
  <2> QED
    BY <1>0, <2>1, <2>2, <2>3, Untouched
<1>4. resume' = <<>>
  <2>1. ~SaveResume
    BY <1>0 DEF SaveResume
  <2> QED
    BY <1>0, <2>1, Untouched DEF Open, ClearResume
<1>5. adopted' = {}
  <2>1. CASE Open
    <3>1. Restored + 1..exec.from = {}
      BY <1>0, <1>1
    <3> QED
      BY <1>0, <2>1, <3>1 DEF Open
  <2>2. CASE SaveSection
    BY <1>0, <2>2 DEF SaveSection
  <2> QED
    BY <1>0, <2>1, <2>2, Untouched
<1>6. writes' = {}
  BY <1>0, <1>1, Untouched DEF Boundary, Claim, Land, Lose
<1>7. exec'.from = 0 /\ exec'.boundary \in {None, 0} /\ exec'.pc \notin {"yield", "yielded"}
  BY <1>0, Marks
<1>8. \A i \in Index, m, n \in Name : store'[i][m] # 0 /\ store'[i][n] # 0 => m = n
  <2>1. CASE store' = store
    BY <1>0, <2>1 DEF Stored
  <2>2. CASE CacheSection
    <3>1. ASSUME NEW k \in CacheTakes, store' = [store EXCEPT ![Here][k] = 0]
          PROVE  \A i \in Index, n \in Name : store'[i][n] # 0 => Stored(i, n)
      BY <3>1, StoreFacts DEF Stored
    <3> QED
      BY <1>0, <2>1, <2>2, <3>1 DEF CacheSection
  <2>3. CASE SaveSection
    BY <1>0, <2>3, Saved DEF SaveSection, Existed, Stored
  <2>4. CASE DeleteSuperseded
    BY <2>1, <2>4, Deleted
  <2> QED
    BY <2>1, <2>2, <2>3, <2>4, Untouched
<1>9. exec'.pc = "save" => ~Existed(Here)'
  <2>1. CASE UNCHANGED <<exec, store>>
    BY <1>0, <2>1 DEF Existed, Stored, Here
  <2>2. CASE FetchSection
    <3>1. site[Here].date \in Date \union {0}
      BY <2>2, TypeFacts, ListingFacts DEF FetchSection
    <3>2. exec'.at = exec.at /\ (Existed(Here) => exec'.pc # "save")
      BY <1>2, <2>2, <3>1 DEF FetchSection, RunState, Step
    <3>3. Existed(Here)' <=> Existed(Here)
      BY <2>2, <3>2 DEF FetchSection, Existed, Stored, Here
    <3> QED
      BY <3>2, <3>3
  <2>3. CASE CacheSection
    <3>1. exec'.at = exec.at /\ Here \in Index
      <4>1. exec.pc \in InLoop
        BY <2>3 DEF CacheSection, InLoop
      <4> QED
        BY <1>2, <2>3, <4>1, HereIs DEF CacheSection, RunState
    <3>2. ASSUME NEW n \in CacheTakes, store' = [store EXCEPT ![Here][n] = 0], Existed(Here)'
          PROVE  FALSE
      <4>1. n \in Name /\ Stored(Here, n)
        BY <3>2 DEF CacheTakes
      <4>2. PICK m \in Name : store'[Here][m] # 0
        BY <3>1, <3>2 DEF Existed, Stored, Here
      <4>3. m # n /\ Stored(Here, m)
        BY <3>1, <3>2, <4>1, <4>2, StoreFacts DEF Stored
      <4> QED
        BY <1>0, <3>1, <4>1, <4>3
    <3>3. ASSUME CacheTakes = {}, store' = store
          PROVE  ~Existed(Here)
      <4>1. ASSUME NEW n \in Name, Stored(Here, n)
            PROVE  FALSE
        <5>1. PreviousName \in Name
          <6>1. exec.pc \in InLoop
            BY <2>3 DEF CacheSection, InLoop
          <6> QED
            BY <6>1, HereIs, TypeFacts, ListingFacts DEF PreviousName
        <5>2. n \in CacheTakes
          BY <1>0, <3>1, <4>1, <5>1 DEF CacheTakes
        <5> QED
          BY <3>3, <5>2
      <4> QED
        BY <4>1 DEF Existed
    <3>4. store' = store => (Existed(Here)' <=> Existed(Here))
      BY <3>1 DEF Existed, Stored, Here
    <3> QED
      BY <2>3, <3>2, <3>3, <3>4 DEF CacheSection
  <2> QED
    BY <2>1, <2>2, <2>3, Marks
<1> QED
  BY <1>3, <1>4, <1>5, <1>6, <1>7, <1>8, <1>9 DEF Native, Stored

\* Opening a listing settles the sections the index or the cursor completed
\* and those the stored listing has as new.
LEMMA OpenSettles ==
    ASSUME TypeOK, Open, NEW i \in Settled'
    PROVE  /\ i \in DOMAIN site /\ i \in Index
           /\ \/ /\ i \in DOMAIN resume /\ SameSection(resume[i], site[i])
                 /\ Stored(i, resume[i].name)
              \/ <<i, site[i].name>> \in adopted' /\ Stored(i, site[i].name)
              \/ i \in DOMAIN toc /\ toc[i].name = site[i].name /\ Existed(i)
                 /\ ~(site[i].date > toc[i].date)
<1>1. /\ exec'.toc = site /\ exec'.at = Restored
      /\ exec'.plan = {k \in DOMAIN site : k > exec.from /\ (row.force \/ NeedsDownload(k))}
      /\ Restored <= exec.from /\ Restored <= Len(resume) /\ Restored \in 0..Len(site)
      /\ exec.from \in Nat /\ Len(site) \in Nat /\ Len(resume) \in Nat
      /\ DOMAIN resume = 1..Len(resume)
  BY OpenIs, TypeFacts, ListingFacts
<1>2. i \in DOMAIN site /\ i \in Index /\ i \in Nat /\ i >= 1
  BY <1>1, TypeFacts, ListingFacts DEF Settled
<1>3. CASE i <= Restored
  <2>1. i \in 1..Restored /\ i \in DOMAIN resume /\ resume[i].name \in Name
    BY <1>1, <1>2, <1>3, TypeFacts, ListingFacts
  <2>2. SameSection(resume[i], site[i]) /\ Stored(i, resume[i].name)
    BY <2>1 DEF Open, Resumable
  <2> QED
    BY <1>2, <2>1, <2>2
<1>4. CASE ~(i <= Restored) /\ i <= exec.from
  <2>1. i \in Restored + 1..exec.from
    BY <1>1, <1>2, <1>4
  <2>2. Stored(i, site[i].name)
    BY <2>1 DEF Open, Resumable
  <2>3. <<i, site[i].name>> \in adopted'
    BY <2>1 DEF Open
  <2> QED
    BY <1>2, <2>2, <2>3
<1>5. CASE ~(i <= Restored) /\ ~(i <= exec.from)
  <2>1. i \notin exec'.plan
    BY <1>1, <1>5 DEF Settled
  <2>2. ~NeedsDownload(i)
    BY <1>1, <1>2, <1>5, <2>1
  <2> QED
    BY <1>2, <2>2 DEF NeedsDownload
<1> QED
  BY <1>3, <1>4, <1>5

\* A save settles the section it saves.
LEMMA SaveSettles ==
    ASSUME TypeOK, Places, SaveSection
    PROVE  /\ exec.pc \in Opened /\ exec'.toc = exec.toc
           /\ Settled' \subseteq Settled \union {Here}
<1> DEFINE run == [exec EXCEPT !.body = 0]
           yielded == [exec EXCEPT !.body = 0, !.pc = "yield"]
<1>1. exec.pc \in InLoop /\ exec.pc \in Opened
  BY DEF SaveSection, InLoop, Opened
<1>2. /\ exec \in RunState /\ Here \in Nat /\ Here = exec.at + 1 /\ exec.at \in Nat
      /\ Here \in 0..Len(exec.toc) /\ exec.toc \in Listing
  BY <1>1, HereIs, TypeFacts DEF Here, Index
<1>3. exec' = Looped(run, Here) \/ exec' = yielded
  BY DEF SaveSection
<1>4. /\ run \in RunState /\ Same(exec, run) /\ Same(exec, yielded) /\ yielded.at = exec.at
  BY <1>2 DEF RunState, Same, Step
<1> HIDE DEF run, yielded
<1>5. Same(run, Looped(run, Here)) /\ Looped(run, Here).at = Here
  BY <1>2, <1>4, LoopedIs DEF Same
<1>6. Same(exec, exec') /\ exec'.at \in {exec.at, Here}
  BY <1>3, <1>4, <1>5 DEF Same
<1>7. ASSUME NEW i \in Settled'
      PROVE  i \in Settled \union {Here}
  <2>1. i \in DOMAIN exec.toc /\ (i <= exec'.at \/ i \notin exec.plan)
    BY <1>6, <1>7 DEF Settled, Same
  <2>2. i \in Nat
    BY <1>2, <2>1, ListingFacts
  <2>3. i <= exec.at \/ i = Here \/ i \notin exec.plan
    BY <1>2, <1>6, <2>1, <2>2
  <2> QED
    BY <2>1, <2>3 DEF Settled
<1> QED
  BY <1>1, <1>6, <1>7 DEF Same

LEMMA BackedStep ==
    ASSUME TypeOK, Places, Backed, [Next]_vars
    PROVE  Backed'
<1> SUFFICES ASSUME Worker
             PROVE  Backed'
  BY Untouched DEF Backed, Worker
<1>0. /\ toc \in Listing /\ exec.toc \in Listing /\ site \in Listing
      /\ row.cursor \in 0..MaxLength /\ exec.at \in 0..MaxLength
      /\ exec.boundary \in 0..MaxLength \union {None} /\ writes \subseteq 0..MaxLength
      /\ MaxLength \in Nat /\ row \in RowState
  BY TypeFacts DEF TypeOK
<1>1. /\ Filled(row.cursor) /\ TocReadable
      /\ exec.boundary # None => Filled(exec.boundary)
      /\ \A w \in writes : Filled(w)
      /\ exec.pc \in Opened => \A i \in Settled : Stored(i, exec.toc[i].name)
  BY DEF Backed
<1>2. \A c \in 0..MaxLength : Filled(c) => \A i \in 1..c : Existed(i)'
  BY <1>0, BodiesStay DEF Filled, Index
<1>3. ASSUME exec.pc \in InLoop
      PROVE  Filled(exec.at)
  <2>1. exec.at < Len(exec.toc) /\ DOMAIN exec.toc = 1..Len(exec.toc) /\ Len(exec.toc) \in Nat
    BY <1>0, <1>3, ListingFacts DEF Places
  <2>2. \A i \in 1..exec.at : i \in Settled
    BY <1>0, <2>1 DEF Settled
  <2>3. \A i \in 1..exec.at : exec.toc[i].name \in Name /\ Stored(i, exec.toc[i].name)
    BY <1>0, <1>1, <1>3, <2>2, ListingFacts DEF Opened, Settled
  <2> QED
    BY <2>3 DEF Filled, Existed
<1>4. Filled(0)
  BY DEF Filled
<1>5. row'.cursor \in 0..MaxLength /\ Filled(row'.cursor)
  <2>1. CASE Submit
    BY <1>0, <1>4, <2>1 DEF Submit, NoJob
  <2>2. CASE YieldExecution
    <3>1. row'.cursor = exec.at /\ exec.pc \in InLoop
      BY <1>0, <2>2 DEF YieldExecution, RowState, InLoop
    <3> QED
      BY <1>0, <1>3, <3>1
  <2>3. CASE SaveRetryProgress
    <3>1. \/ row' = row
          \/ exec.boundary # None /\ row'.cursor = exec.boundary
      BY <1>0, <2>3 DEF SaveRetryProgress, RowState
    <3> QED
      BY <1>0, <1>1, <3>1
  <2>4. CASE Land
    <3>1. row' = row \/ (\E w \in writes : row'.cursor = w)
      BY <1>0, <2>4 DEF Land, RowState
    <3> QED
      BY <1>0, <1>1, <3>1
  <2> QED
    BY <1>0, <1>1, <2>1, <2>2, <2>3, <2>4, Untouched
<1>6. exec'.boundary # None => exec'.boundary \in 0..MaxLength /\ Filled(exec'.boundary)
  <2>1. exec.pc = "boundary" => Filled(exec.at)
    BY <1>3 DEF InLoop
  <2> QED
    BY <1>0, <1>1, <1>4, <2>1, Marks
<1>7. \A w \in writes' : w \in 0..MaxLength /\ Filled(w)
  <2>1. CASE Boundary
    <3>1. exec.pc = "boundary" /\ exec \in RunState
      BY <2>1, TypeFacts DEF Boundary
    <3>2. Filled(exec.at) /\ Sent(exec) \subseteq {exec.at}
      BY <1>3, <3>1, AtBoundaryIs DEF InLoop, Step
    <3>3. writes' \subseteq writes \union {exec.at}
      BY <2>1, <3>2 DEF Boundary, Bounded
    <3> QED
      BY <1>0, <1>1, <3>2, <3>3
  <2>2. CASE Claim \/ Land \/ Lose
    <3>1. writes' \subseteq writes
      BY <2>2 DEF Claim, Land, Lose
    <3> QED
      BY <1>0, <1>1, <3>1
  <2> QED
    BY <1>0, <1>1, <2>1, <2>2, Untouched
<1>8. TocReadable'
  <2>0. Worker'
    BY Untouched DEF Worker
  <2>1. CASE SaveToc
    <3>1. toc' = exec.toc /\ store' = store /\ exec.pc \in Behind
      BY <2>1 DEF SaveToc, Behind
    <3>2. Settled = DOMAIN exec.toc
      BY <1>0, <3>1, ListingFacts DEF Settled, Places
    <3> QED
      BY <1>1, <3>1, <3>2 DEF TocReadable, Stored, Opened
  <2>2. CASE ~SaveToc
    BY <1>1, <2>2, BodiesStay, Untouched DEF TocReadable, Stored
  <2> QED
    BY <2>1, <2>2
<1>9. ASSUME exec'.pc \in Opened
      PROVE  \A i \in Settled' : store'[i][exec'.toc[i].name] # 0
  <2>1. CASE Open
    <3>1. store' = store /\ exec'.toc = site
      BY <2>1, OpenIs DEF Open
    <3>2. ASSUME NEW i \in Settled'
          PROVE  Stored(i, site[i].name)
      BY <1>1, <2>1, OpenSettles DEF TocReadable, SameSection
    <3> QED
      BY <3>1, <3>2 DEF Stored
  <2>2. CASE SaveSection
    <3>1. exec'.toc = exec.toc /\ Settled' \subseteq Settled \union {Here} /\ exec.pc \in Opened
      BY <2>2, SaveSettles
    <3>2. store'[Here][exec.toc[Here].name] # 0
      BY <2>2, Saved
    <3> QED
      BY <1>1, <3>1, <3>2, BodiesStay
  <2>3. CASE ~Open /\ ~SaveSection
    <3>1. exec.pc \in Opened /\ exec'.toc = exec.toc /\ Settled' \subseteq Settled
      BY <1>9, <2>3, Onward DEF Same, Settled
    <3> QED
      BY <1>1, <3>1, BodiesStay
  <2> QED
    BY <2>1, <2>2, <2>3
<1> QED
  <2>1. \A i \in 1..row'.cursor : Existed(i)'
    BY <1>2, <1>5
  <2>2. exec'.boundary # None => \A i \in 1..exec'.boundary : Existed(i)'
    BY <1>2, <1>6
  <2>3. \A w \in writes' : \A i \in 1..w : Existed(i)'
    BY <1>2, <1>7
  <2> QED
    BY <1>8, <1>9, <2>1, <2>2, <2>3, Zenon DEF Backed, Filled, Stored

\* A body under this name is as new as the date, unless it was adopted.
Dated(i, n, d) == Stored(i, n) /\ <<i, n>> \notin adopted => store[i][n] >= d

\* The bodies a reader of the section may get are as new as its date.
Covers(i, section) ==
    \A n \in Name : (Worker => n = section.name) => Dated(i, n, section.date)

LEMMA FreshCovers ==
    ASSUME TypeOK, Native, NEW i \in Index, NEW section \in Entry, Fresh(i, section)
    PROVE  Covers(i, section)
<1>0. section.name \in Name
  BY DEF Entry
<1>1. ASSUME NEW n \in Name, Worker => n = section.name, Stored(i, n), <<i, n>> \notin adopted
      PROVE  store[i][n] >= section.date
  <2>1. Existed(i)
    BY <1>1 DEF Existed
  <2>2. CASE Worker
    <3>1. Body(i, section.name) = {store[i][n]}
      BY <1>1, <2>2 DEF Body
    <3> QED
      BY <1>1, <2>1, <2>2, <3>1 DEF Fresh
  <2>3. CASE ~Worker
    <3>1. /\ adopted = {} /\ \A m \in Name : Stored(i, m) => m = n
      BY <1>1, <2>3 DEF Native
    <3>2. store[i][n] \in Body(i, section.name)
      BY <1>0, <1>1, <2>1, <2>3, <3>1 DEF Body
    <3> QED
      BY <2>1, <3>1, <3>2 DEF Fresh
  <2> QED
    BY <2>2, <2>3
<1> QED
  BY <1>1 DEF Covers, Dated

LEMMA CoversFresh ==
    ASSUME Native', NEW i, NEW section \in Entry, Covers(i, section)',
           Worker' => store'[i][section.name] # 0
    PROVE  Fresh(i, section)'
<1>0. section.name \in Name
  BY DEF Entry
<1>1. ASSUME Existed(i)', <<i, section.name>> \notin adopted', NEW b \in Body(i, section.name)'
      PROVE  b >= section.date
  <2>1. CASE Worker'
    <3>1. b = store'[i][section.name]
      BY <1>1, <2>1 DEF Body
    <3> QED
      BY <1>0, <1>1, <2>1, <3>1 DEF Covers, Dated, Stored
  <2>2. CASE ~Worker'
    <3>1. adopted' = {}
      BY <2>2 DEF Native
    <3>2. PICK n \in Name : store'[i][n] # 0 /\ b = store'[i][n]
      BY <1>0, <1>1, <2>2 DEF Body, Existed, Stored
    <3> QED
      BY <2>2, <3>1, <3>2 DEF Covers, Dated, Stored
  <2> QED
    BY <2>1, <2>2
<1> QED
  BY <1>1 DEF Fresh

\* Bodies only get newer: what a save replaces or adds is as new as the run's
\* listing, all else stays or goes.
LEMMA CoversStays ==
    ASSUME TypeOK, Places, [Next]_vars, NEW i \in Index, NEW section \in Entry,
           SaveSection /\ i = Here => section.date <= exec.toc[Here].date
    PROVE  /\ \A n \in Name : Dated(i, n, section.date) => Dated(i, n, section.date)'
           /\ Covers(i, section) => Covers(i, section)'
<1>0. Worker' = Worker /\ section.date \in Nat
  BY Untouched, StoreFacts DEF Worker, Entry
<1>1. ASSUME NEW n \in Name, Dated(i, n, section.date), store'[i][n] # 0, <<i, n>> \notin adopted'
      PROVE  store'[i][n] >= section.date
  <2>1. CASE SaveSection
    <3>1. CASE i = Here /\ n = exec.toc[Here].name
      <4>1. /\ store'[i][n] = exec.body /\ exec.body \in Nat /\ exec.body >= exec.toc[Here].date
            /\ exec.toc[Here].date \in Nat
        BY <2>1, <3>1, Saved, StoreFacts, TypeFacts, ListingFacts
      <4> QED
        BY <1>0, <2>1, <3>1, <4>1
    <3>2. CASE ~(i = Here /\ n = exec.toc[Here].name)
      <4>1. store'[i][n] = store[i][n] /\ <<i, n>> \notin adopted
        BY <1>1, <2>1, <3>2, Saved DEF SaveSection
      <4> QED
        BY <1>1, <4>1 DEF Dated, Stored
    <3> QED
      BY <3>1, <3>2
  <2>2. CASE ~SaveSection
    <3>1. adopted \subseteq adopted'
      BY <2>2, Untouched DEF Open
    <3>2. store'[i][n] = store[i][n]
      <4>1. CASE CacheSection
        <5>1. ASSUME NEW m \in CacheTakes, store' = [store EXCEPT ![Here][m] = 0]
              PROVE  store'[i][n] = store[i][n]
          BY <1>1, <5>1, StoreFacts
        <5> QED
          BY <4>1, <5>1 DEF CacheSection
      <4>2. CASE DeleteSuperseded
        BY <1>1, <4>2, Deleted
      <4> QED
        BY <2>2, <4>1, <4>2, Untouched
    <3> QED
      BY <1>1, <3>1, <3>2 DEF Dated, Stored
  <2> QED
    BY <2>1, <2>2
<1>2. \A n \in Name : Dated(i, n, section.date) => Dated(i, n, section.date)'
  BY <1>1 DEF Dated, Stored
<1> QED
  BY <1>0, <1>2 DEF Covers

LEMMA KeptStep ==
    ASSUME NovelInv, [Next]_vars, TypeOK', Native', Backed'
    PROVE  Kept'
<1> USE DEF NovelInv
<1>0. /\ toc \in Listing /\ exec.toc \in Listing /\ site \in Listing /\ resume \in Listing
      /\ Worker' = Worker
      /\ \A listing \in Listing : \A i \in DOMAIN listing :
            i \in Index /\ listing[i] \in Entry /\ listing[i].name \in Name /\ listing[i].date \in Nat
  BY TypeFacts, ListingFacts, StoreFacts, Untouched DEF Worker
<1>1. \A i \in DOMAIN toc : Covers(i, toc[i])
  BY <1>0, FreshCovers DEF Kept, UpdatesKept, Fresh
<1>2. \A i \in DOMAIN resume : Dated(i, resume[i].name, resume[i].date)
  BY DEF Kept, UpdatesKept, Dated
<1>3. exec.pc \in Opened => \A i \in Settled : i \in DOMAIN exec.toc /\ Covers(i, exec.toc[i])
  BY <1>0, FreshCovers DEF Kept, Settled
<1>4. SaveSection =>
         /\ exec.pc \in Opened
         /\ \A i \in DOMAIN toc : i = Here => toc[i].date <= exec.toc[Here].date
         /\ \A i \in DOMAIN resume : i = Here => resume[i].date <= exec.toc[Here].date
         /\ \A i \in DOMAIN exec.toc : i = Here => exec.toc[i].date <= exec.toc[Here].date
  BY <1>0, Saved, SaveSettles DEF Dates
<1>5. ASSUME NEW i, NEW s \in Entry, i \in DOMAIN toc, s = toc[i]
      PROVE  Covers(i, s)'
  BY <1>0, <1>1, <1>4, <1>5, CoversStays
<1>6. ASSUME NEW i, NEW s \in Entry, i \in DOMAIN resume, s = resume[i]
      PROVE  Dated(i, s.name, s.date)'
  BY <1>0, <1>2, <1>4, <1>6, CoversStays
<1>7. ASSUME NEW i, NEW s \in Entry, exec.pc \in Opened, i \in Settled, s = exec.toc[i]
      PROVE  i \in Index /\ Covers(i, s)'
  BY <1>0, <1>3, <1>4, <1>7, CoversStays
<1>8. ASSUME NEW i, NEW s \in Entry, i \in DOMAIN toc', s = toc'[i]
      PROVE  i \in Index /\ Covers(i, s)'
  <2>1. CASE SaveToc
    <3>1. toc' = exec.toc /\ exec.pc \in Behind
      BY <2>1 DEF SaveToc, Behind
    <3>2. i \in Settled
      BY <1>0, <1>8, <3>1, ListingFacts DEF Settled, Places
    <3> QED
      BY <1>7, <1>8, <3>1, <3>2 DEF Opened
  <2>2. CASE ~SaveToc
    BY <1>0, <1>5, <1>8, <2>2, Untouched
  <2> QED
    BY <2>1, <2>2
<1>9. ASSUME NEW i, NEW s \in Entry, i \in DOMAIN resume', s = resume'[i]
      PROVE  i \in Index /\ Dated(i, s.name, s.date)'
  <2>1. CASE resume' = resume
    BY <1>0, <1>6, <1>9, <2>1
  <2>2. CASE resume' = <<>>
    BY <1>9, <2>2, EmptyListing
  <2>3. CASE SaveResume /\ resume' # resume
    <3>1. exec.pc = "yield" /\ resume' = SubSeq(exec.toc, 1, exec.at)
      BY <2>3 DEF SaveResume
    <3>2. exec.at \in 0..Len(exec.toc) /\ DOMAIN exec.toc = 1..Len(exec.toc)
      BY <1>0, <3>1, TypeFacts, ListingFacts DEF Places, InLoop
    <3>3. DOMAIN resume' = 1..exec.at /\ \A k \in 1..exec.at : resume'[k] = exec.toc[k]
      BY <1>0, <3>1, <3>2, Prefix
    <3>4. i \in Settled /\ s = exec.toc[i]
      BY <1>9, <3>2, <3>3 DEF Settled
    <3>5. i \in Index /\ Covers(i, s)' /\ s.name \in Name
      BY <1>7, <3>1, <3>4 DEF Opened, InLoop, Entry
    <3> QED
      BY <3>5 DEF Covers
  <2> QED
    BY <2>1, <2>2, <2>3, Untouched DEF Open, ClearResume
<1>10. ASSUME exec'.pc \in Opened, NEW i, NEW s \in Entry, i \in Settled', s = exec'.toc[i]
       PROVE  i \in Index /\ Covers(i, s)'
  <2>1. CASE Open
    <3>1. exec'.toc = site /\ store' = store
      BY <2>1, OpenIs DEF Open
    <3>2. i \in DOMAIN site /\ i \in Index /\ s = site[i]
      BY <1>10, <2>1, <3>1, OpenSettles
    <3>3. CASE /\ i \in DOMAIN resume /\ SameSection(resume[i], site[i])
               /\ Stored(i, resume[i].name)
      <4>1. Worker
        BY <3>3, EmptyListing DEF Native
      <4>2. Dated(i, s.name, s.date)'
        BY <1>6, <1>0, <3>2, <3>3 DEF SameSection
      <4> QED
        BY <1>0, <3>2, <4>1, <4>2 DEF Covers
    <3>4. CASE <<i, site[i].name>> \in adopted'
      <4>1. Worker'
        BY <3>4 DEF Native
      <4> QED
        BY <3>2, <3>4, <4>1 DEF Covers, Dated
    <3>5. CASE i \in DOMAIN toc /\ toc[i].name = site[i].name /\ ~(site[i].date > toc[i].date)
      <4>1. Covers(i, toc[i]) /\ s.name = toc[i].name /\ s.date <= toc[i].date
            /\ s.date \in Nat /\ toc[i].date \in Nat
        BY <1>0, <1>1, <3>2, <3>5
      <4>2. \A n \in Name : store[i][n] \in Nat
        BY <3>2, StoreFacts
      <4>3. Covers(i, s)
        BY <4>1, <4>2 DEF Covers, Dated
      <4> QED
        BY <1>10, <2>1, <3>2, <4>3, CoversStays DEF Open, SaveSection
    <3> QED
      BY <1>10, <2>1, <3>3, <3>4, <3>5, OpenSettles
  <2>2. CASE SaveSection
    <3>1. exec.pc \in Opened /\ exec'.toc = exec.toc /\ Settled' \subseteq Settled \union {Here}
      BY <2>2, SaveSettles
    <3>2. CASE i \in Settled
      BY <1>7, <1>10, <3>1, <3>2
    <3>3. CASE i = Here
      <4>1. /\ Here \in Index /\ s = exec.toc[Here] /\ exec.body >= s.date
            /\ \A k \in Index, n \in Name : store'[k][n] =
                  IF k = Here /\ n = exec.toc[Here].name THEN exec.body ELSE store[k][n]
        BY <1>10, <2>2, <3>1, <3>3, Saved
      <4>2. ~Worker => \A n \in Name : store[Here][n] = 0
        BY <2>2 DEF Native, SaveSection, Existed, Stored
      <4> QED
        BY <1>0, <3>3, <4>1, <4>2 DEF Covers, Dated, Stored
    <3> QED
      BY <1>10, <3>1, <3>2, <3>3
  <2>3. CASE ~Open /\ ~SaveSection
    <3>1. exec.pc \in Opened /\ exec'.toc = exec.toc /\ Settled' \subseteq Settled
      BY <1>10, <2>3, Onward DEF Same, Settled
    <3> QED
      BY <1>7, <1>10, <3>1
  <2> QED
    BY <2>1, <2>2, <2>3
<1>11. /\ toc' \in Listing /\ resume' \in Listing /\ exec'.toc \in Listing
       /\ Settled' \subseteq DOMAIN exec'.toc
  BY DEF TypeOK, Settled
<1>12. Worker' =>
          /\ \A i \in DOMAIN toc' : store'[i][toc'[i].name] # 0
          /\ exec'.pc \in Opened => \A i \in Settled' : store'[i][exec'.toc[i].name] # 0
  BY DEF Backed, TocReadable, Stored
<1>13. ASSUME NEW i, NEW s \in Entry, i \in DOMAIN toc', s = toc'[i]
       PROVE  Fresh(i, s)'
  BY <1>8, <1>12, <1>13, CoversFresh
<1>14. ASSUME exec'.pc \in Opened, NEW i, NEW s \in Entry, i \in Settled', s = exec'.toc[i]
       PROVE  Fresh(i, s)'
  BY <1>10, <1>12, <1>14, CoversFresh
<1>15. UpdatesKept'
  BY <1>0, <1>9, <1>11, <1>13 DEF UpdatesKept, Fresh, Dated
<1> QED
  BY <1>0, <1>11, <1>14, <1>15 DEF Kept, Fresh

-----------------------------------------------------------------------------
(* The theorems.                                                           *)

LEMMA InitHolds == ASSUME Init PROVE NovelInv
<1>0. /\ MaxLength \in Nat \ {0} /\ MaxChanges \in Nat
      /\ exec = Idle /\ toc = <<>> /\ resume = <<>> /\ writes = {} /\ adopted = {} /\ row = NoJob
      /\ used.changes = 0 /\ used \in [Bounds -> Nat]
  BY BoundAssumption DEF Init, Bounds
<1>1. site \in Listing /\ \A i \in DOMAIN site : site[i].date = 1
  <2> DEFINE first == [date |-> 1, name |-> CHOOSE m \in Name : TRUE]
  <2>1. first \in Entry /\ first.date = 1
    BY <1>0, NameAssumption DEF Entry, Date
  <2>2. PICK n \in 1..MaxLength : site = [i \in 1..n |-> first]
    BY DEF Init
  <2> HIDE DEF first
  <2>3. site \in [1..n -> Entry] /\ n \in 0..MaxLength /\ DOMAIN site = 1..n
        /\ \A i \in 1..n : site[i] = first
    BY <1>0, <2>1, <2>2
  <2> QED
    BY <2>1, <2>3 DEF Listing
<1>2. row \in RowState /\ row.cursor = 0
  BY <1>0 DEF NoJob, RowState
<1>3. store \in [Index -> [Name -> Date \union {0}]] /\ \A i \in Index, n \in Name : store[i][n] = 0
  BY DEF Init
<1>4. TypeOK
  <2>1. exec \in RunState /\ toc \in Listing /\ resume \in Listing /\ writes \subseteq 0..MaxLength
        /\ adopted \subseteq Index \X Name
    BY <1>0, IdleIs, EmptyListing
  <2>2. runtime \in Runtime /\ record \in BOOLEAN
    BY DEF Init
  <2> QED
    BY <1>0, <1>1, <1>2, <1>3, <2>1, <2>2 DEF TypeOK, RunState, RowState
<1>5. exec.pc = "idle" /\ exec.toc = <<>> /\ exec.from = 0 /\ exec.boundary = None /\ DOMAIN <<>> = {}
  BY <1>0, IdleIs, EmptyListing
<1>6. Places
  BY <1>5 DEF Places, InLoop, Behind, Published
<1>7. Dates
  <2>1. Past(site)
    BY <1>0, <1>1 DEF Past
  <2>2. Past(<<>>)
    BY <1>5 DEF Past
  <2> QED
    BY <1>0, <1>5, <2>1, <2>2 DEF Dates, Opened, InLoop, Behind
<1>8. Native
  BY <1>0, <1>2, <1>3, <1>5 DEF Native, Stored
<1>9. Backed
  BY <1>0, <1>2, <1>5 DEF Backed, Filled, TocReadable, Opened, InLoop, Behind
<1>10. Kept
  BY <1>0, <1>5 DEF Kept, UpdatesKept, Opened, InLoop, Behind
<1> QED
  BY <1>4, <1>6, <1>7, <1>8, <1>9, <1>10 DEF NovelInv

\* The inductive invariant: where the run is, that dates only grow, that a
\* native library keeps one body a section, that cursors are backed by bodies,
\* and that every settled section is as new as the listing the run read.
THEOREM NovelInvariant == Spec => []NovelInv
<1>1. Init => NovelInv
  BY InitHolds
<1>2. NovelInv /\ [Next]_vars => NovelInv'
  <2> SUFFICES ASSUME NovelInv, [Next]_vars
               PROVE  NovelInv'
    OBVIOUS
  <2>1. TypeOK' /\ Places' /\ Dates' /\ Native' /\ Backed'
    BY TypeStep, PlacesStep, DatesStep, NativeStep, BackedStep DEF NovelInv, Dates
  <2>2. Kept'
    BY <2>1, KeptStep
  <2> QED
    BY <2>1, <2>2 DEF NovelInv
<1> QED
  BY <1>1, <1>2, PTL DEF Spec

\* The state of a download keeps its type.
THEOREM TypeCorrect == Spec => []TypeOK
<1>1. NovelInv => TypeOK
  BY DEF NovelInv
<1> QED
  BY <1>1, NovelInvariant, PTL

\* The job's cursor never passes a section whose body was never stored.
THEOREM CursorIsBacked == Spec => []CursorBacked
<1>1. NovelInv => CursorBacked
  BY DEF NovelInv, Backed, Filled, CursorBacked
<1> QED
  BY <1>1, NovelInvariant, PTL

\* The stored listing of a Worker library finds each of its bodies.
THEOREM TocIsReadable == Spec => []TocReadable
<1>1. NovelInv => TocReadable
  BY DEF NovelInv, Backed, TocReadable
<1> QED
  BY <1>1, NovelInvariant, PTL

\* An update the author made is not lost, but in the sections a run took by
\* the cursor alone.
THEOREM UpdatesAreKept == Spec => []UpdatesKept
<1>1. NovelInv => UpdatesKept
  BY DEF NovelInv, Kept
<1> QED
  BY <1>1, NovelInvariant, PTL

\* A recorded retry continues from the last boundary its run reached, or, when
\* saving that was reported failed, from the cursor the save left.
THEOREM ProgressIsKept == Spec => RetryKeepsProgress
<1> DEFINE Progress ==
        (exec.pc \in {"attempt", "unsaved"} /\ row'.status = "queued" /\ Worker /\ exec.boundary # None)
            => row'.cursor = IF exec.pc = "attempt" THEN exec.boundary ELSE row.cursor
<1>1. NovelInv /\ [Next]_vars => [Progress]_vars
  <2> SUFFICES ASSUME NovelInv, [Next]_vars, exec.pc \in {"attempt", "unsaved"}, Worker, exec.boundary # None
               PROVE  row'.cursor = IF exec.pc = "attempt" THEN exec.boundary ELSE row.cursor
    OBVIOUS
  <2>1. writes = {} /\ (exec.pc = "attempt" => row.cursor = exec.boundary)
    BY DEF NovelInv, Places
  <2>2. ~Submit /\ ~YieldExecution /\ ~SaveRetryProgress /\ ~Land
    BY <2>1 DEF Submit, YieldExecution, SaveRetryProgress, Land
  <2>3. row'.cursor = row.cursor
    BY <2>2, Untouched DEF NovelInv
  <2> QED
    BY <2>1, <2>3
<1> QED
  BY <1>1, NovelInvariant, PTL DEF Spec, RetryKeepsProgress

=============================================================================
