-------------------------- MODULE ThreadPageProofs --------------------------
(***************************************************************************)
(* What the page of a thread shows, for any number of calls in flight, any *)
(* replies, page size and votes, and any answers that go wrong.            *)
(***************************************************************************)
EXTENDS ThreadPage, FiniteSetTheorems, WellFoundedInduction, TLAPS

-----------------------------------------------------------------------------
(* The invariants                                                          *)

Page == 1..(MaxReplies + 1)

ListCall ==
  [kind : {"list"}, at : {"sent", "counted", "read", "parents"}, page : Page, total : Nat,
   items : Seq(Item), known : SUBSET Ids, want : SUBSET Ids, met : SUBSET Kind]

PostCall ==
  [kind : {"post"}, at : {"sent", "begun", "done"}, id : Ids \cup {0}, text : 1..MaxTexts,
   page : Page, total : Nat, len : Nat, known : SUBSET Ids, sound : BOOLEAN, met : SUBSET Kind]

VoteCall ==
  [kind : {"vote"}, at : {"sent", "seen", "done"}, id : Ids, want : Ballot,
   vote : Ballot \cup {"none"}, met : SUBSET Kind]

CallRecord == {NoCall} \cup ListCall \cup PostCall \cup VoteCall

Types ==
  /\ begun \in 0..MaxReplies
  /\ rows \subseteq 1..begun
  /\ votes \in [Ids -> Ballot \cup {"none"}]
  /\ Voted \subseteq rows
  /\ copies \in [1..MaxTexts -> Nat]
  /\ page \in Page /\ pages \in Page
  /\ total \in Nat
  /\ replies \in Seq(Item)
  /\ loading \in BOOLEAN
  /\ cache \subseteq rows
  /\ typed \in 0..MaxTexts /\ draft \in 0..typed
  /\ call \in [Calls -> CallRecord]
  /\ faults \in [Faults -> Nat]
  /\ shownPage \in Page \cup {0}
  /\ {spliced, smudged, spoilt} \subseteq BOOLEAN
  /\ owed \in [id : Ids \cup {0}, rank : 0..MaxReplies]

Listed(s) == {s[i].id : i \in DOMAIN s}

\* What is shown, and what a call holds, was there to be read. A reply is not
\* committed before its own post is, and no client counts it before that.
Sound(r) ==
  /\ r.kind = "list" => r.total <= Cardinality(rows) /\ Listed(r.items) \cup r.want \subseteq rows
  /\ r.kind = "post" =>
       /\ r.total <= Cardinality(rows)
       /\ r.at = "begun" => r.id \in (1..begun) \ rows
       /\ r.at = "done" => r.id \in rows /\ r.total < Cardinality(rows)
  /\ r.kind = "vote" => r.id \in rows

Numbers ==
  /\ Shown \subseteq rows
  /\ total <= Cardinality(rows)
  /\ \A t \in 1..MaxTexts : copies[t] <= Cardinality(rows)
  /\ \A k \in 1..begun : ParentIsThere(k)
  /\ \A c \in Calls : Sound(call[c])
  /\ \A c, d \in Pending("post") :
       c # d /\ call[c].at # "sent" /\ call[d].at # "sent" => call[c].id # call[d].id

\* Two calls in flight know of each other.
Meet ==
  \A c, d \in Calls :
    c # d /\ call[c] # NoCall /\ call[d] # NoCall => call[c].kind \in call[d].met

Base == Types /\ Numbers /\ Meet

Crossed(r) == r.met \cap {"list", "post"} # {}

PageInv ==
  /\ shownPage \in {0, page} \/ \E c \in Pending("list") : call[c].at # "parents"
  /\ \A c \in Pending("list") \cup Pending("post") : Crossed(call[c]) \/ call[c].page = page

\* Until a fetch crosses a post, its reply is nowhere on the screen.
OwnIsNew ==
  \A c \in Pending("post") :
    \/ call[c].at = "sent" \/ "list" \in call[c].met
    \/ /\ call[c].id \notin Shown \cup Voted
       /\ \A d \in Pending("vote") : call[d].id # call[c].id

WellFormed(s) == Len(s) <= PageSize /\ \A i, j \in DOMAIN s : s[i].id = s[j].id => i = j

FormInv ==
  /\ spliced \/ WellFormed(replies)
  /\ \A c \in Pending("list") : WellFormed(call[c].items)
  /\ \A c \in Pending("post") : Crossed(call[c]) \/ call[c].len = Len(replies)

Agrees(x) == x.vote = votes[x.id]
Right(s) == \A i \in DOMAIN s : Agrees(s[i])
Answering(k) == \E c \in Pending("vote") : call[c].at = "done" /\ call[c].id = k

VoteInv ==
  /\ smudged \/ \A i \in DOMAIN replies : Agrees(replies[i]) \/ Answering(replies[i].id)
  /\ \A c \in Pending("vote") : call[c].at = "done" => "vote" \in call[c].met \/ Agrees(call[c])
  /\ \A c \in Pending("list") :
       call[c].at = "read" => "vote" \in call[c].met \/ Right(call[c].items)

\* The page of the own reply is being fetched, or holds it.
OweInv ==
  owed.id # 0 =>
    /\ owed.id \in rows /\ owed.rank <= Rank(owed.id)
    /\ owed.rank = Rank(owed.id) =>
         /\ \A c \in Pending("list") :
              /\ call[c].at \in {"sent", "counted"} => call[c].page = PagesOf(owed.rank)
              /\ call[c].at = "read" => owed.id \in Listed(call[c].items)
         /\ \/ owed.id \in Shown \/ shownPage = 0
            \/ \E c \in Pending("list") : call[c].at # "parents"

TextInv ==
  \/ spoilt
  \/ /\ \A t \in 1..MaxTexts : copies[t] <= 1 /\ (t > typed => copies[t] = 0)
     /\ draft \in {0, typed}
     /\ typed > 0 /\ draft = 0 => copies[typed] = 1
     /\ \A c, d \in Pending("post") : c = d
     /\ \A c \in Pending("post") :
          /\ call[c].text = draft
          /\ copies[draft] = IF call[c].at = "done" THEN 1 ELSE 0
     /\ Pending("post") = {} /\ draft # 0 => copies[draft] = 0

IInv == Base /\ PageInv /\ OwnIsNew /\ FormInv /\ VoteInv /\ OweInv /\ TextInv

-----------------------------------------------------------------------------
(* Numbers of replies and pages                                            *)

LEMMA RowsAreFinite ==
  ASSUME Types
  PROVE  IsFiniteSet(rows) /\ Cardinality(rows) \in Nat /\ Cardinality(rows) <= MaxReplies
<1>1. begun \in Nat /\ begun <= MaxReplies
  BY BoundsAssumption DEF Types
<1>2. IsFiniteSet(1..begun) /\ Cardinality(1..begun) = begun
  BY <1>1, FS_Interval
<1>3. rows \in SUBSET (1..begun)
  BY DEF Types
<1>4. IsFiniteSet(rows) /\ Cardinality(rows) <= begun
  BY <1>2, <1>3, FS_Subset
<1>5. QED
  BY <1>1, <1>4, FS_CardinalityType, BoundsAssumption

LEMMA RowsAreIds ==
  ASSUME Types
  PROVE  /\ rows \subseteq Ids /\ Voted \subseteq Ids /\ cache \subseteq Ids
         /\ begun \in Nat /\ begun <= MaxReplies /\ 1..begun \subseteq Ids
<1>1. begun \in Nat /\ begun <= MaxReplies /\ MaxReplies \in Nat
  BY BoundsAssumption DEF Types
<1>2. 1..begun \subseteq Ids
  BY <1>1 DEF Ids
<1>3. QED
  BY <1>1, <1>2 DEF Types

\* A reply more or less.
LEMMA OneMoreRow ==
  ASSUME Types, NEW k \in Ids
  PROVE  /\ Cardinality(rows) <= Cardinality(rows \cup {k})
         /\ k \notin rows => Cardinality(rows \cup {k}) = Cardinality(rows) + 1
BY RowsAreFinite, FS_AddElement

\* Pages are filled one after the other.
LEMMA PagesOfFacts ==
  ASSUME NEW n \in Nat
  PROVE  /\ PagesOf(n) \in Nat
         /\ n = 0 => PagesOf(n) = 0
         /\ n > 0 => PagesOf(n) \in 1..n
         /\ PagesOf(n) * PageSize < n + PageSize /\ n <= PagesOf(n) * PageSize
<1>1. PageSize \in Nat /\ PageSize > 0
  BY BoundsAssumption
<1>2. PICK p : p = (n + PageSize - 1) \div PageSize
  OBVIOUS
<1>3. p \in Nat /\ p * PageSize <= n + PageSize - 1 /\ n + PageSize - 1 < p * PageSize + PageSize
  BY <1>1, <1>2
<1>4. (n = 0 => p = 0) /\ (n > 0 => p <= n)
  BY <1>1, <1>2
<1>5. n > 0 => p > 0
  BY <1>1, <1>3
<1>6. QED
  BY <1>1, <1>2, <1>3, <1>4, <1>5 DEF PagesOf

LEMMA PagesInRange ==
  /\ 1 \in Page
  /\ \A n \in Nat : n > 0 /\ n <= MaxReplies => PagesOf(n) \in Page
<1>1. MaxReplies \in Nat
  BY BoundsAssumption
<1>2. ASSUME NEW n \in Nat, n > 0, n <= MaxReplies PROVE PagesOf(n) \in Page
  <2>1. PagesOf(n) \in 1..n
    BY <1>2, PagesOfFacts
  <2>2. QED
    BY <1>1, <1>2, <2>1 DEF Page
<1>3. QED
  BY <1>1, <1>2 DEF Page

-----------------------------------------------------------------------------
(* What a step does to the calls                                           *)

LEMMA Kinds ==
  ASSUME Types, NEW c \in Calls
  PROVE  /\ call[c] \in CallRecord
         /\ call[c].kind = "list" <=> call[c] \in ListCall
         /\ call[c].kind = "post" <=> call[c] \in PostCall
         /\ call[c].kind = "vote" <=> call[c] \in VoteCall
         /\ call[c].kind = "none" <=> call[c] = NoCall
         /\ call[c].met \subseteq Kind
BY DEF Types, CallRecord, NoCall, ListCall, PostCall, VoteCall, Kind

\* The record s is r, but for the calls it has met.
Kept(r, s) ==
  /\ s.kind = r.kind
  /\ r \in ListCall =>
       /\ s \in ListCall /\ s.at = r.at /\ s.page = r.page /\ s.total = r.total
       /\ s.items = r.items /\ s.want = r.want
  /\ r \in PostCall =>
       /\ s \in PostCall /\ s.at = r.at /\ s.id = r.id /\ s.text = r.text /\ s.page = r.page
       /\ s.total = r.total /\ s.len = r.len
  /\ r \in VoteCall => s \in VoteCall /\ s.at = r.at /\ s.id = r.id /\ s.vote = r.vote

LEMMA MeetOnly ==
  ASSUME NEW r \in ListCall \cup PostCall \cup VoteCall, NEW m \in SUBSET Kind,
         NEW s, s = [r EXCEPT !.met = @ \cup m]
  PROVE  Kept(r, s) /\ s.met = r.met \cup m /\ s \in ListCall \cup PostCall \cup VoteCall
<1>1. CASE r \in ListCall
  BY <1>1 DEF Kept, ListCall, PostCall, VoteCall
<1>2. CASE r \in PostCall
  BY <1>2 DEF Kept, ListCall, PostCall, VoteCall
<1>3. CASE r \in VoteCall
  BY <1>3 DEF Kept, ListCall, PostCall, VoteCall
<1>4. QED
  BY <1>1, <1>2, <1>3

\* Call c becomes r, and the other calls in flight stay what they are: those in
\* flight know of it from then on, and it knows of them.
Began(c, r) ==
  /\ call' \in [Calls -> CallRecord]
  /\ Kept(r, call'[c]) /\ r.met \subseteq call'[c].met
  /\ \A d \in Calls \ {c} :
       IF call[d] = NoCall THEN call'[d] = NoCall
       ELSE /\ Kept(call[d], call'[d]) /\ call'[d].met = call[d].met \cup {r.kind}
            /\ call[d].kind \in call'[c].met

LEMMA BeginFields ==
  ASSUME Types, NEW c \in Calls, NEW r \in ListCall \cup PostCall \cup VoteCall, Begin(c, r)
  PROVE  Began(c, r)
<1> DEFINE others == {d \in Calls \ {c} : call[d] # NoCall}
           m == {call[e].kind : e \in others}
<1>1. r.kind \in Kind /\ m \subseteq Kind
  BY Kinds DEF Kind, ListCall, PostCall, VoteCall, CallRecord
<1>2. /\ call'[c] = [r EXCEPT !.met = @ \cup m]
      /\ \A d \in others : call'[d] = [call[d] EXCEPT !.met = @ \cup {r.kind}]
      /\ \A d \in Calls \ ({c} \cup others) : call'[d] = call[d]
      /\ DOMAIN call' = Calls /\ call' = [d \in Calls |-> call'[d]]
  BY DEF Begin
<1>3. Kept(r, call'[c]) /\ call'[c].met = r.met \cup m /\ call'[c] \in CallRecord
  <2>1. PICK s : s = call'[c]
    OBVIOUS
  <2>2. PICK k : k = m
    OBVIOUS
  <2>3. s = [r EXCEPT !.met = @ \cup k] /\ k \in SUBSET Kind
    BY <1>1, <1>2, <2>1, <2>2
  <2>4. Kept(r, s) /\ s.met = r.met \cup k /\ s \in ListCall \cup PostCall \cup VoteCall
    BY <2>3, MeetOnly
  <2>5. QED
    BY <2>1, <2>2, <2>4 DEF CallRecord
<1>4. ASSUME NEW d \in others
      PROVE  Kept(call[d], call'[d]) /\ call'[d].met = call[d].met \cup {r.kind}
             /\ call'[d] \in CallRecord
  <2>1. call[d] \in ListCall \cup PostCall \cup VoteCall
    BY Kinds DEF CallRecord
  <2>2. PICK x \in ListCall \cup PostCall \cup VoteCall : x = call[d]
    BY <2>1
  <2>3. PICK s : s = call'[d]
    OBVIOUS
  <2>4. s = [x EXCEPT !.met = @ \cup {r.kind}] /\ {r.kind} \in SUBSET Kind
    BY <1>1, <1>2, <2>2, <2>3
  <2>5. Kept(x, s) /\ s.met = x.met \cup {r.kind} /\ s \in ListCall \cup PostCall \cup VoteCall
    BY <2>4, MeetOnly
  <2>6. QED
    BY <2>2, <2>3, <2>5 DEF CallRecord
<1>5. ASSUME NEW d \in Calls PROVE call'[d] \in CallRecord
  BY <1>2, <1>3, <1>4 DEF CallRecord
<1>6. call' \in [Calls -> CallRecord]
  BY <1>2, <1>5
<1>7. QED
  BY <1>2, <1>3, <1>4, <1>6 DEF Began

LEMMA EndFields ==
  ASSUME Types, NEW c \in Calls, End(c)
  PROVE  /\ call' \in [Calls -> CallRecord]
         /\ call'[c] = NoCall /\ \A d \in Calls \ {c} : call'[d] = call[d]
BY DEF End, Types, CallRecord

-----------------------------------------------------------------------------
(* The slice that is a page                                                *)

LEMMA SetsOfIds ==
  ASSUME NEW S \in SUBSET Ids
  PROVE  IsFiniteSet(S) /\ Cardinality(S) \in Nat /\ \A k \in S : k \in Nat
<1>1. IsFiniteSet(Ids)
  BY FS_Interval, BoundsAssumption DEF Ids
<1>2. IsFiniteSet(S)
  BY <1>1, FS_Subset
<1>3. QED
  BY <1>2, FS_CardinalityType DEF Ids

\* Sets of numbers that are bounded have a greatest element.
LEMMA Greatest ==
  ASSUME NEW S \in SUBSET Ids, S # {}
  PROVE  \E m \in S : \A k \in S : k <= m
<1> DEFINE T == {MaxReplies - k : k \in S}
<1>1. \A k \in S : k \in Nat /\ k <= MaxReplies
  BY BoundsAssumption DEF Ids
<1>2. T \subseteq Nat /\ T # {}
  BY <1>1, BoundsAssumption
<1>3. \E m \in T : \A y \in T : ~(<<y, m>> \in OpToRel(<, Nat))
  BY <1>2, WFMin, NatLessThanWellFounded
<1>4. PICK m \in T : \A y \in T : ~(y < m)
  BY <1>2, <1>3 DEF OpToRel
<1>5. PICK x \in S : m = MaxReplies - x
  OBVIOUS
<1>6. ASSUME NEW k \in S PROVE k <= x
  <2>1. ~(MaxReplies - k < m)
    BY <1>4
  <2>2. QED
    BY <1>1, <1>5, <2>1, BoundsAssumption
<1>7. QED
  BY <1>6

Increasing(s, S) ==
  s \in [1..Cardinality(S) -> S] /\ \A i, j \in DOMAIN s : i < j => s[i] < s[j]

\* Every set of replies can be listed in order: a least set that could not
\* would lack its greatest element.
LEMMA CanBeOrdered ==
  ASSUME NEW S \in SUBSET Ids
  PROVE  \E s : Increasing(s, S)
<1> DEFINE Bad == {U \in SUBSET Ids : ~ \E s : Increasing(s, U)}
<1>1. IsFiniteSet(Ids)
  BY FS_Interval, BoundsAssumption DEF Ids
<1>2. SUFFICES ASSUME Bad # {} PROVE FALSE
  OBVIOUS
<1>3. IsWellFoundedOn(StrictSubsetOrdering(Ids), SUBSET Ids)
  BY <1>1, FS_StrictSubsetOrderingWellFounded, FS_FiniteSubsetsOfFinite
<1>4. PICK U \in Bad : \A V \in Bad : <<V, U>> \notin StrictSubsetOrdering(Ids)
  <2>1. Bad \subseteq SUBSET Ids
    OBVIOUS
  <2>2. QED
    BY <1>2, <1>3, <2>1, WFMin
<1>5. U \in SUBSET Ids /\ IsFiniteSet(U) /\ Cardinality(U) \in Nat
  BY SetsOfIds
<1>6. CASE U = {}
  <2>1. Cardinality(U) = 0
    BY <1>6, FS_EmptySet
  <2>2. Increasing([i \in 1..0 |-> 0], U)
    BY <2>1 DEF Increasing
  <2>3. QED
    BY <2>2
<1>7. CASE U # {}
  <2>1. PICK m \in U : \A k \in U : k <= m
    BY <1>7, Greatest
  <2>2. PICK V : V = U \ {m}
    OBVIOUS
  <2>3. PICK n \in Nat : n = Cardinality(U) /\ n > 0 /\ Cardinality(V) = n - 1
    <3>1. Cardinality(U) # 0
      BY <1>5, <1>7, FS_EmptySet
    <3>2. Cardinality(V) = Cardinality(U) - 1
      BY <1>5, <2>1, <2>2, FS_RemoveElement
    <3>3. QED
      BY <1>5, <3>1, <3>2
  <2>4. V \in SUBSET Ids /\ <<V, U>> \in StrictSubsetOrdering(Ids)
    BY <2>1, <2>2 DEF StrictSubsetOrdering
  <2>5. PICK s : Increasing(s, V)
    BY <1>4, <2>4
  <2>6. /\ s \in [1..(n - 1) -> V]
        /\ \A i, j \in 1..(n - 1) : i < j => s[i] < s[j]
        /\ \A i \in 1..(n - 1) : s[i] < m
    <3>1. s \in [1..(n - 1) -> V] /\ \A i, j \in 1..(n - 1) : i < j => s[i] < s[j]
      BY <2>3, <2>5 DEF Increasing
    <3>2. \A k \in V : k < m
      BY <2>1, <2>2 DEF Ids
    <3>3. QED
      BY <3>1, <3>2
  <2> DEFINE t == [i \in 1..n |-> IF i = n THEN m ELSE s[i]]
  <2>7. t \in [1..n -> U]
    BY <2>1, <2>2, <2>6
  <2>8. ASSUME NEW i \in 1..n, NEW j \in 1..n, i < j PROVE t[i] < t[j]
    BY <2>6, <2>8
  <2>9. Increasing(t, U)
    BY <2>3, <2>7, <2>8 DEF Increasing
  <2>10. QED
    BY <2>9
<1>8. QED
  BY <1>6, <1>7

\* A listing in order has every element once.
LEMMA OrderIsComplete ==
  ASSUME NEW S \in SUBSET Ids, NEW s, Increasing(s, S)
  PROVE  {s[i] : i \in DOMAIN s} = S /\ \A i, j \in DOMAIN s : s[i] = s[j] => i = j
<1>1. IsFiniteSet(S) /\ Cardinality(S) \in Nat /\ \A k \in S : k \in Nat
  BY SetsOfIds
<1>2. PICK n \in Nat : n = Cardinality(S)
  BY <1>1
<1>3. s \in [1..n -> S] /\ \A i, j \in 1..n : i < j => s[i] < s[j]
  BY <1>2 DEF Increasing
<1>4. ASSUME NEW i \in 1..n, NEW j \in 1..n, s[i] = s[j] PROVE i = j
  <2>1. s[i] \in Nat
    BY <1>1, <1>3
  <2>2. s[j] \in Nat
    BY <1>1, <1>3
  <2>3. QED
    BY <1>3, <1>4, <2>1, <2>2
<1>5. s \in Injection(1..n, S)
  BY <1>3, <1>4 DEF Injection, IsInjective
<1>6. Cardinality(1..n) = n
  BY FS_Interval
<1>7. s \in Surjection(1..n, S)
  BY <1>1, <1>2, <1>5, <1>6, FS_Injection
<1>8. QED
  BY <1>3, <1>4, <1>7 DEF Surjection

\* Replies of a later date have a higher rank.
LEMMA RankFacts ==
  ASSUME Types
  PROVE  /\ \A k \in rows : Rank(k) \in Nat /\ Rank(k) > 0
         /\ \A j, k \in rows : j < k => Rank(j) < Rank(k)
<1> DEFINE Upto(k) == {j \in rows : j <= k}
<1>1. \A k \in rows : k \in Nat
  BY DEF Types
<1>2. \A k : IsFiniteSet(Upto(k)) /\ Cardinality(Upto(k)) \in Nat
  BY RowsAreFinite, FS_Subset, FS_CardinalityType
<1>3. ASSUME NEW k \in rows PROVE Cardinality(Upto(k)) > 0
  <2>1. k \in Upto(k)
    BY <1>1
  <2>2. QED
    BY <1>2, <2>1, FS_EmptySet
<1>4. ASSUME NEW j \in rows, NEW k \in rows, j < k
      PROVE  Cardinality(Upto(j)) < Cardinality(Upto(k))
  <2>1. Upto(j) \in SUBSET Upto(k) /\ k \in Upto(k) /\ k \notin Upto(j)
    BY <1>1, <1>4
  <2>2. Cardinality(Upto(j)) <= Cardinality(Upto(k)) /\ Cardinality(Upto(j)) # Cardinality(Upto(k))
    <3>1. PICK A, B : A = Upto(j) /\ B = Upto(k)
      OBVIOUS
    <3>2. IsFiniteSet(B) /\ A \in SUBSET B /\ A # B
      BY <1>2, <2>1, <3>1
    <3>3. Cardinality(A) <= Cardinality(B) /\ Cardinality(A) # Cardinality(B)
      BY <3>2, FS_Subset
    <3>4. QED
      BY <3>1, <3>3
  <2>3. QED
    BY <1>2, <2>2
<1>5. QED
  BY <1>2, <1>3, <1>4 DEF Rank

\* A page has no more than a page of replies: their ranks are consecutive.
LEMMA PageIsShort ==
  ASSUME Types, NEW p \in Page
  PROVE  Cardinality({k \in rows : PagesOf(Rank(k)) = p}) <= PageSize
<1> DEFINE here == {k \in rows : PagesOf(Rank(k)) = p}
           f == [k \in here |-> Rank(k)]
<1>1. p \in Nat /\ PageSize \in Nat /\ PageSize > 0 /\ p >= 1
  BY BoundsAssumption DEF Page
<1>2. PICK x \in Nat : x = p * PageSize /\ x >= PageSize
  <2>1. p * PageSize \in Nat /\ p * PageSize >= PageSize
    BY <1>1
  <2>2. QED
    BY <2>1
<1>3. ASSUME NEW k \in here PROVE Rank(k) \in (x - PageSize + 1)..x
  <2>1. Rank(k) \in Nat /\ PagesOf(Rank(k)) = p
    BY RankFacts
  <2>2. p * PageSize < Rank(k) + PageSize /\ Rank(k) <= p * PageSize
    BY <2>1, PagesOfFacts
  <2>3. QED
    BY <1>1, <1>2, <2>1, <2>2
<1>4. \A k \in here : k \in Nat
  BY DEF Types
<1>5. ASSUME NEW j \in here, NEW k \in here, f[j] = f[k] PROVE j = k
  <2>1. Rank(j) = Rank(k) /\ Rank(j) \in Nat
    BY <1>5, RankFacts
  <2>2. ~(j < k) /\ ~(k < j)
    BY <2>1, RankFacts
  <2>3. QED
    BY <1>4, <2>2
<1>6. f \in Injection(here, (x - PageSize + 1)..x)
  BY <1>3, <1>5 DEF Injection, IsInjective
<1>7. /\ IsFiniteSet((x - PageSize + 1)..x)
      /\ Cardinality((x - PageSize + 1)..x) = PageSize
  <2>1. x - PageSize + 1 \in Int /\ x - PageSize + 1 <= x
    BY <1>1, <1>2
  <2>2. PICK a \in Int : a = x - PageSize + 1
    BY <2>1
  <2>3. IsFiniteSet(a..x) /\ Cardinality(a..x) = x - a + 1
    BY <1>2, <2>1, <2>2, FS_Interval
  <2>4. QED
    BY <1>1, <1>2, <2>2, <2>3
<1> HIDE DEF f
<1>8. Cardinality(here) <= Cardinality((x - PageSize + 1)..x)
  BY <1>6, <1>7, FS_Injection
<1>9. QED
  BY <1>7, <1>8

\* What get_replies reads: the replies of the page, each once, with their votes.
LEMMA SliceFacts ==
  ASSUME Types, NEW p \in Page
  PROVE  /\ Slice(p) \in Seq(Item)
         /\ Listed(Slice(p)) = {k \in rows : PagesOf(Rank(k)) = p}
         /\ WellFormed(Slice(p))
         /\ Right(Slice(p))
<1> DEFINE here == {k \in rows : PagesOf(Rank(k)) = p}
           order == CHOOSE s \in [1..Cardinality(here) -> here] :
                      \A i, j \in DOMAIN s : i < j => s[i] < s[j]
<1>1. here \in SUBSET Ids
  BY RowsAreIds
<1>2. Cardinality(here) \in Nat /\ Cardinality(here) <= PageSize
  BY <1>1, SetsOfIds, PageIsShort
<1>3. Increasing(order, here)
  <2>1. \E s \in [1..Cardinality(here) -> here] : \A i, j \in DOMAIN s : i < j => s[i] < s[j]
    BY <1>1, CanBeOrdered DEF Increasing
  <2>2. QED
    BY <2>1 DEF Increasing
<1>4. PICK H, s : H = here /\ s = order
  OBVIOUS
<1>5. Slice(p) = [i \in DOMAIN s |-> [id |-> s[i], vote |-> votes[s[i]]]]
  BY <1>4 DEF Slice
<1>6. PICK n \in Nat : n = Cardinality(H) /\ n <= PageSize
  BY <1>2, <1>4
<1>7. s \in [1..n -> H] /\ H \subseteq Ids
  BY <1>1, <1>3, <1>4, <1>6 DEF Increasing
<1>8. {s[i] : i \in 1..n} = H /\ \A i, j \in 1..n : s[i] = s[j] => i = j
  <2>1. H \in SUBSET Ids /\ Increasing(s, H) /\ DOMAIN s = 1..n
    BY <1>1, <1>3, <1>4, <1>7
  <2>2. {s[i] : i \in DOMAIN s} = H /\ \A i, j \in DOMAIN s : s[i] = s[j] => i = j
    BY <2>1, OrderIsComplete
  <2>3. QED
    BY <2>1, <2>2
<1>9. PICK t : t = Slice(p)
  OBVIOUS
<1>10. /\ t = [i \in 1..n |-> [id |-> s[i], vote |-> votes[s[i]]]]
       /\ \A i \in 1..n : t[i] \in Item /\ t[i].id = s[i] /\ t[i].vote = votes[s[i]]
  <2>1. t = [i \in 1..n |-> [id |-> s[i], vote |-> votes[s[i]]]]
    BY <1>5, <1>7, <1>9
  <2>2. ASSUME NEW i \in 1..n
        PROVE  s[i] \in Ids /\ votes[s[i]] \in Ballot \cup {"none"}
    BY <1>7 DEF Types
  <2>3. QED
    BY <2>1, <2>2 DEF Item
<1>11. t \in Seq(Item) /\ Len(t) = n /\ DOMAIN t = 1..n
  BY <1>10
<1>12. Listed(t) = H
  BY <1>8, <1>10, <1>11 DEF Listed
<1>13. WellFormed(t) /\ Right(t)
  BY <1>6, <1>8, <1>10, <1>11 DEF WellFormed, Right, Agrees
<1>14. QED
  BY <1>4, <1>9, <1>11, <1>12, <1>13

-----------------------------------------------------------------------------
(* What each action does                                                   *)

\* No call but c has changed.
Changed(c) == call' \in [Calls -> CallRecord] /\ \A d \in Calls \ {c} : call'[d] = call[d]

\* Call c is a step further.
Advanced(c, from, to) ==
  /\ Changed(c)
  /\ call[c].at = from /\ call'[c].at = to /\ call'[c].met = call[c].met
  /\ \/ call[c] \in ListCall /\ call'[c] \in ListCall /\ call'[c].page = call[c].page
     \/ call[c] \in PostCall /\ call'[c] \in PostCall /\ call'[c].page = call[c].page
        /\ call'[c].text = call[c].text /\ call'[c].total = call[c].total
        /\ call'[c].len = call[c].len
     \/ call[c] \in VoteCall /\ call'[c] \in VoteCall /\ call'[c].id = call[c].id

LEMMA CountFacts ==
  ASSUME Types, NEW c \in Calls, Count(c)
  PROVE  /\ Advanced(c, "sent", "counted") /\ call[c] \in ListCall
         /\ call'[c].total = Cardinality(rows)
         /\ call'[c].items = call[c].items /\ call'[c].want = call[c].want
<1>1. PICK r \in ListCall : r = call[c] /\ r.at = "sent"
  BY Kinds DEF Count, Pending
<1>2. PICK n \in Nat : n = Cardinality(rows)
  BY RowsAreFinite
<1>3. PICK s : s = [r EXCEPT !.at = "counted", !.total = n]
  OBVIOUS
<1>4. s \in ListCall /\ s.at = "counted" /\ s.total = n /\ s.page = r.page /\ s.items = r.items
      /\ s.want = r.want /\ s.met = r.met
  BY <1>3 DEF ListCall
<1>5. call' = [call EXCEPT ![c] = s]
  BY <1>1, <1>2, <1>3 DEF Count, Types
<1>6. call'[c] = s /\ Changed(c)
  BY <1>4, <1>5 DEF Types, Changed, CallRecord
<1>7. QED
  BY <1>1, <1>2, <1>4, <1>6 DEF Advanced

LEMMA ReadFacts ==
  ASSUME Types, NEW c \in Calls, Read(c)
  PROVE  /\ Advanced(c, "counted", "read") /\ call[c] \in ListCall
         /\ call'[c].total = call[c].total
         /\ call'[c].items = Slice(call[c].page) /\ call'[c].want = call[c].want
<1>1. PICK r \in ListCall : r = call[c] /\ r.at = "counted"
  BY Kinds DEF Read, Pending
<1>2. PICK t \in Seq(Item) : t = Slice(r.page)
  BY SliceFacts DEF ListCall
<1>3. PICK s : s = [r EXCEPT !.at = "read", !.items = t]
  OBVIOUS
<1>4. s \in ListCall /\ s.at = "read" /\ s.total = r.total /\ s.page = r.page /\ s.items = t
      /\ s.want = r.want /\ s.met = r.met
  BY <1>3 DEF ListCall
<1>5. call' = [call EXCEPT ![c] = s]
  BY <1>1, <1>2, <1>3 DEF Read, Types
<1>6. call'[c] = s /\ Changed(c)
  BY <1>4, <1>5 DEF Types, Changed, CallRecord
<1>7. QED
  BY <1>1, <1>2, <1>4, <1>6 DEF Advanced

\* Parents are replies.
LEMMA ParentsAreThere ==
  ASSUME Types, Numbers, NEW S \in SUBSET rows
  PROVE  {ParentOf[k] : k \in S} \ {0} \subseteq rows
BY DEF Types, Numbers, ParentIsThere

LEMMA ShowListFacts ==
  ASSUME Types, Numbers, NEW c \in Calls, ShowList(c)
  PROVE  /\ call[c] \in ListCall /\ call[c].at = "read" /\ Changed(c)
         /\ \/ Advanced(c, "read", "parents")
               /\ call'[c].total = call[c].total /\ call'[c].items = call[c].items
               /\ call'[c].want \subseteq rows /\ loading' = loading
            \/ call'[c] = NoCall /\ loading' = FALSE
<1>1. PICK r \in ListCall : r = call[c] /\ r.at = "read"
  BY Kinds DEF ShowList, Pending
<1>2. PICK w : w = Missing(r)
  OBVIOUS
<1>3. w \subseteq rows
  <2>1. Listed(r.items) \subseteq rows
    BY <1>1 DEF Numbers, Sound, ListCall
  <2>2. {ParentOf[k] : k \in Listed(r.items)} \ {0} \subseteq rows
    BY <2>1, ParentsAreThere
  <2>3. w \subseteq {ParentOf[k] : k \in Listed(r.items)} \ {0}
    BY <1>2 DEF Missing, Listed
  <2>4. QED
    BY <2>2, <2>3
<1>4. CASE w = {}
  <2>1. End(c) /\ loading' = FALSE
    BY <1>1, <1>2, <1>4 DEF ShowList
  <2>2. QED
    BY <1>1, <2>1, EndFields DEF Changed
<1>5. CASE w # {}
  <2>1. PICK s : s = [r EXCEPT !.at = "parents", !.want = w]
    OBVIOUS
  <2>2. s \in ListCall /\ s.at = "parents" /\ s.total = r.total /\ s.page = r.page
        /\ s.items = r.items /\ s.want = w /\ s.met = r.met
    BY <1>3, <2>1, RowsAreIds DEF ListCall
  <2>3. call' = [call EXCEPT ![c] = s] /\ loading' = loading
    BY <1>1, <1>2, <1>5, <2>1 DEF ShowList, Types
  <2>4. call'[c] = s /\ Changed(c)
    BY <2>2, <2>3 DEF Types, Changed, CallRecord
  <2>5. QED
    BY <1>1, <1>3, <2>2, <2>3, <2>4 DEF Advanced
<1>6. QED
  BY <1>4, <1>5

LEMMA ShowParentsFacts ==
  ASSUME Types, Numbers, NEW c \in Calls, ShowParents(c)
  PROVE  /\ call[c] \in ListCall /\ call[c].at = "parents"
         /\ Changed(c) /\ call'[c] = NoCall
         /\ cache' \subseteq rows
<1>1. call[c] \in ListCall /\ call[c].at = "parents"
  BY Kinds DEF ShowParents, Pending
<1>2. Changed(c) /\ call'[c] = NoCall
  BY EndFields DEF ShowParents, Changed
<1>3. call[c].want \subseteq rows
  BY <1>1 DEF Numbers, Sound, ListCall
<1>4. ParentsSent(call[c].want) \subseteq rows
  BY <1>3, ParentsAreThere DEF ParentsSent
<1>5. QED
  BY <1>1, <1>2, <1>4 DEF ShowParents, Types

LEMMA PostBeginsFacts ==
  ASSUME Types, NEW c \in Calls, PostBegins(c)
  PROVE  /\ Advanced(c, "sent", "begun") /\ call[c] \in PostCall
         /\ call'[c].id = begun + 1 /\ begun + 1 \in Ids
<1>1. PICK r \in PostCall : r = call[c] /\ r.at = "sent"
  BY Kinds DEF PostBegins, Pending
<1>2. PICK n \in Ids : n = begun + 1
  BY BoundsAssumption DEF PostBegins, Types, Ids
<1>3. PICK s : s = [r EXCEPT !.at = "begun", !.id = n]
  OBVIOUS
<1>4. s \in PostCall /\ s.at = "begun" /\ s.id = n /\ s.text = r.text /\ s.page = r.page
      /\ s.total = r.total /\ s.len = r.len /\ s.met = r.met
  BY <1>3 DEF PostCall
<1>5. call' = [call EXCEPT ![c] = s]
  BY <1>1, <1>2, <1>3 DEF PostBegins, Types
<1>6. call'[c] = s /\ Changed(c)
  BY <1>4, <1>5 DEF Types, Changed, CallRecord
<1>7. QED
  BY <1>1, <1>2, <1>4, <1>6 DEF Advanced

LEMMA PostCommitsFacts ==
  ASSUME Types, Numbers, NEW c \in Calls, PostCommits(c)
  PROVE  /\ Advanced(c, "begun", "done") /\ call[c] \in PostCall
         /\ call'[c].id = call[c].id
         /\ call[c].id \in (1..begun) \ rows
<1>1. PICK r \in PostCall : r = call[c] /\ r.at = "begun"
  BY Kinds DEF PostCommits, Pending
<1>2. PICK s : s = [r EXCEPT !.at = "done"]
  OBVIOUS
<1>3. s \in PostCall /\ s.at = "done" /\ s.id = r.id /\ s.text = r.text /\ s.page = r.page
      /\ s.total = r.total /\ s.len = r.len /\ s.met = r.met
  BY <1>2 DEF PostCall
<1>4. call' = [call EXCEPT ![c] = s]
  BY <1>1, <1>2 DEF PostCommits, Types
<1>5. call'[c] = s /\ Changed(c)
  BY <1>3, <1>4 DEF Types, Changed, CallRecord
<1>6. r.id \in (1..begun) \ rows
  BY <1>1 DEF Numbers, Sound, PostCall
<1>7. QED
  BY <1>1, <1>3, <1>5, <1>6 DEF Advanced

LEMMA SameVotes == votes' = votes => Voted' = Voted
BY DEF Voted

LEMMA VoteReadsFacts ==
  ASSUME Types, NEW c \in Calls, VoteReads(c)
  PROVE  Advanced(c, "sent", "seen") /\ call[c] \in VoteCall
<1>1. PICK r \in VoteCall : r = call[c] /\ r.at = "sent"
  BY Kinds DEF VoteReads, Pending
<1>2. PICK v \in Ballot \cup {"none"} : v = votes[r.id]
  BY DEF Types, VoteCall
<1>3. PICK s : s = [r EXCEPT !.at = "seen", !.vote = v]
  OBVIOUS
<1>4. s \in VoteCall /\ s.at = "seen" /\ s.id = r.id /\ s.met = r.met
  BY <1>3 DEF VoteCall
<1>5. call' = [call EXCEPT ![c] = s]
  BY <1>1, <1>2, <1>3 DEF VoteReads, Types
<1>6. call'[c] = s /\ Changed(c)
  BY <1>4, <1>5 DEF Types, Changed, CallRecord
<1>7. QED
  BY <1>1, <1>4, <1>6 DEF Advanced

LEMMA VoteCommitsFacts ==
  ASSUME Types, NEW c \in Calls, VoteCommits(c)
  PROVE  /\ Advanced(c, "seen", "done") /\ call[c] \in VoteCall
         /\ votes' = [votes EXCEPT ![call[c].id] = call'[c].vote]
         /\ Voted' \subseteq Voted \cup {call[c].id}
<1>1. PICK r \in VoteCall : r = call[c] /\ r.at = "seen"
  BY Kinds DEF VoteCommits, Pending
<1>2. PICK v \in Ballot \cup {"none"} : v = Outcome(r)
  BY DEF Outcome, VoteCall
<1>3. PICK s : s = [r EXCEPT !.at = "done", !.vote = v]
  OBVIOUS
<1>4. s \in VoteCall /\ s.at = "done" /\ s.id = r.id /\ s.vote = v /\ s.met = r.met
  BY <1>3 DEF VoteCall
<1>5. call' = [call EXCEPT ![c] = s] /\ votes' = [votes EXCEPT ![r.id] = v]
  BY <1>1, <1>2, <1>3 DEF VoteCommits, Types
<1>6. call'[c] = s /\ Changed(c)
  BY <1>4, <1>5 DEF Types, Changed, CallRecord
<1>7. Voted' \subseteq Voted \cup {r.id}
  BY <1>5 DEF Voted, Types
<1>8. QED
  BY <1>1, <1>4, <1>5, <1>6, <1>7 DEF Advanced

LEMMA VoteRunsAgainFacts ==
  ASSUME Types, NEW c \in Calls, VoteRunsAgain(c)
  PROVE  Advanced(c, "seen", "sent") /\ call[c] \in VoteCall
<1>1. PICK r \in VoteCall : r = call[c] /\ r.at = "seen"
  BY Kinds DEF VoteRunsAgain, Pending
<1>2. PICK s : s = [r EXCEPT !.at = "sent"]
  OBVIOUS
<1>3. s \in VoteCall /\ s.at = "sent" /\ s.id = r.id /\ s.met = r.met
  BY <1>2 DEF VoteCall
<1>4. call' = [call EXCEPT ![c] = s]
  BY <1>1, <1>2 DEF VoteRunsAgain, Types
<1>5. call'[c] = s /\ Changed(c)
  BY <1>3, <1>4 DEF Types, Changed, CallRecord
<1>6. QED
  BY <1>1, <1>3, <1>5 DEF Advanced

LEMMA VoteConflictsFacts ==
  ASSUME Types, NEW c \in Calls, VoteConflicts(c)
  PROVE  /\ call[c] \in VoteCall /\ call[c].at = "seen"
         /\ Changed(c) /\ call'[c] = NoCall
BY Kinds, EndFields DEF VoteConflicts, Pending, Changed

LEMMA VoteAnsweredFacts ==
  ASSUME Types, NEW c \in Calls, VoteAnswered(c)
  PROVE  /\ call[c] \in VoteCall /\ call[c].at = "done"
         /\ Changed(c) /\ call'[c] = NoCall
         /\ replies' \in Seq(Item) /\ Len(replies') = Len(replies)
         /\ DOMAIN replies = 1..Len(replies) /\ DOMAIN replies' = 1..Len(replies)
         /\ \A i \in DOMAIN replies :
              /\ replies'[i].id = replies[i].id
              /\ replies'[i].vote = IF replies[i].id = call[c].id THEN call[c].vote
                                    ELSE replies[i].vote
         /\ Shown' = Shown
<1>1. PICK r \in VoteCall : r = call[c] /\ r.at = "done"
  BY Kinds DEF VoteAnswered, Pending
<1>2. Changed(c) /\ call'[c] = NoCall
  BY EndFields DEF VoteAnswered, Changed
<1>3. PICK n \in Nat : n = Len(replies) /\ DOMAIN replies = 1..n /\ replies \in [1..n -> Item]
  BY DEF Types
<1> DEFINE f(x) == IF x.id = r.id THEN [x EXCEPT !.vote = r.vote] ELSE x
<1>4. \A x \in Item : f(x) \in Item /\ f(x).id = x.id
                      /\ f(x).vote = IF x.id = r.id THEN r.vote ELSE x.vote
  BY DEF Item, VoteCall
<1>5. replies' = [i \in 1..n |-> f(replies[i])]
  BY <1>1, <1>3 DEF VoteAnswered
<1> HIDE DEF f
<1>6. /\ replies' \in [1..n -> Item]
      /\ \A i \in 1..n : replies'[i].id = replies[i].id
           /\ replies'[i].vote = IF replies[i].id = r.id THEN r.vote ELSE replies[i].vote
  BY <1>3, <1>4, <1>5
<1>7. replies' \in Seq(Item) /\ Len(replies') = n /\ DOMAIN replies' = 1..n
  BY <1>6
<1>8. Shown' = Shown
  BY <1>3, <1>6, <1>7 DEF Shown
<1>9. QED
  BY <1>1, <1>2, <1>3, <1>6, <1>7, <1>8

\* A call c of kind k has begun, and the others in flight are what they were.
Joined(c, k) ==
  /\ call' \in [Calls -> CallRecord]
  /\ call'[c].kind = k
  /\ \A d \in Calls \ {c} :
       IF call[d] = NoCall THEN call'[d] = NoCall
       ELSE /\ Kept(call[d], call'[d]) /\ call'[d].met = call[d].met \cup {k}
            /\ call[d].kind \in call'[c].met

Fetching(c, p) ==
  /\ Joined(c, "list")
  /\ call'[c] \in ListCall /\ call'[c].at = "sent" /\ call'[c].page = p
  /\ call'[c].total = 0 /\ call'[c].items = <<>> /\ call'[c].want = {}

LEMMA FetchRecord ==
  ASSUME Types, NEW p \in Page
  PROVE  /\ FetchOf(p) \in ListCall
         /\ FetchOf(p).at = "sent" /\ FetchOf(p).page = p /\ FetchOf(p).total = 0
         /\ FetchOf(p).items = <<>> /\ FetchOf(p).want = {}
<1>1. PICK t \in Seq(Item) : t = <<>>
  <2>1. <<>> \in Seq(Item)
    OBVIOUS
  <2>2. QED
    BY <2>1, Zenon
<1>2. PICK k \in SUBSET Ids : k = cache
  BY RowsAreIds
<1>3. PICK e \in SUBSET Ids, m \in SUBSET Kind : e = {} /\ m = {}
  OBVIOUS
<1>4. FetchOf(p) = [kind |-> "list", at |-> "sent", page |-> p, total |-> 0, items |-> t,
                    known |-> k, want |-> e, met |-> m]
  BY <1>1, <1>2, <1>3 DEF FetchOf
<1>5. QED
  BY <1>1, <1>3, <1>4 DEF ListCall

LEMMA FetchFacts ==
  ASSUME Types, NEW c \in Calls, NEW p \in Page, NEW m \in SUBSET Kind, NEW known \in SUBSET Ids,
         Begin(c, [FetchOf(p) EXCEPT !.known = known, !.met = m])
  PROVE  Fetching(c, p) /\ m \subseteq call'[c].met
<1>1. PICK f \in ListCall : f = FetchOf(p)
  BY FetchRecord
<1>2. PICK r : r = [f EXCEPT !.known = known, !.met = m]
  OBVIOUS
<1>3. r \in ListCall /\ r.kind = "list" /\ r.at = f.at /\ r.page = f.page /\ r.total = f.total
      /\ r.items = f.items /\ r.want = f.want /\ r.met = m
  BY <1>2 DEF ListCall
<1>4. Began(c, r)
  BY <1>1, <1>2, <1>3, BeginFields
<1>5. QED
  BY <1>1, <1>3, <1>4, FetchRecord DEF Began, Kept, Joined, Fetching, ListCall

LEMMA FetchOfFacts ==
  ASSUME Types, NEW c \in Calls, NEW p \in Page, Begin(c, FetchOf(p))
  PROVE  Fetching(c, p)
<1>1. PICK f \in ListCall : f = FetchOf(p)
  BY FetchRecord
<1>2. Began(c, f)
  BY <1>1, BeginFields
<1>3. QED
  BY <1>1, <1>2, FetchRecord DEF Began, Kept, Joined, Fetching, ListCall

LEMMA GoToPageFacts ==
  ASSUME Types, NEW c \in Calls, NEW p \in Page, GoToPage(c, p)
  PROVE  Fetching(c, p) /\ call[c] = NoCall /\ page' = p
BY FetchOfFacts DEF GoToPage, Fetch

LEMMA SubmitFacts ==
  ASSUME Types, NEW c \in Calls, Submit(c)
  PROVE  /\ Joined(c, "post") /\ call[c] = NoCall
         /\ call'[c] \in PostCall /\ call'[c].at = "sent" /\ call'[c].text = draft
         /\ call'[c].page = page /\ call'[c].total = total /\ call'[c].len = Len(replies)
<1>1. PICK r : r = [kind |-> "post", at |-> "sent", id |-> 0, text |-> draft, page |-> page,
                    total |-> total, len |-> Len(replies), known |-> cache,
                    sound |-> (shownPage # 0), met |-> {}]
  OBVIOUS
<1>2. draft \in 1..MaxTexts /\ Len(replies) \in Nat /\ (shownPage # 0) \in BOOLEAN
  BY BoundsAssumption DEF Submit, Types
<1>3. r \in PostCall
  BY <1>1, <1>2, RowsAreIds DEF PostCall, Types
<1>4. Began(c, r)
  BY <1>1, <1>3, BeginFields DEF Submit
<1>5. QED
  BY <1>1, <1>3, <1>4 DEF Began, Kept, Joined, PostCall, Submit

LEMMA VoteFacts ==
  ASSUME Types, NEW c \in Calls, NEW k \in Votable, NEW want \in Ballot, Vote(c, k, want)
  PROVE  /\ Joined(c, "vote") /\ call[c] = NoCall /\ k \in Shown
         /\ call'[c] \in VoteCall /\ call'[c].at = "sent" /\ call'[c].id = k
<1>1. PICK r : r = [kind |-> "vote", at |-> "sent", id |-> k, want |-> want,
                    vote |-> "none", met |-> {}]
  OBVIOUS
<1>2. r \in VoteCall
  BY <1>1, BoundsAssumption DEF VoteCall
<1>3. Began(c, r)
  BY <1>1, <1>2, BeginFields DEF Vote
<1>4. QED
  BY <1>1, <1>2, <1>3 DEF Began, Kept, Joined, VoteCall, Vote

LEMMA RefusedFacts ==
  ASSUME Types, NEW c \in Calls, Refused(c)
  PROVE  /\ call[c] # NoCall /\ call[c].at \in {"sent", "done"}
         /\ Changed(c) /\ call'[c] = NoCall /\ faults' \in [Faults -> Nat]
BY EndFields DEF Refused, Changed, Fault, Types

LEMMA LostFacts ==
  ASSUME Types, NEW c \in Calls, Lost(c)
  PROVE  /\ call[c] # NoCall /\ call[c].at \notin {"begun", "seen"}
         /\ Changed(c) /\ call'[c] = NoCall /\ faults' \in [Faults -> Nat]
BY EndFields DEF Lost, Changed, Fault, Types

\* The reply that was posted is appended, or its page is fetched, or the page
\* that it belongs on is being shown by now.
Appended(c) ==
  /\ Changed(c) /\ call'[c] = NoCall
  /\ call[c].len < PageSize
  /\ replies' = Append(replies, [id |-> call[c].id, vote |-> "none"])
  /\ total' = call[c].total + 1
  /\ spliced' = (spliced \/ Crossed(call[c]))
  /\ smudged' = (smudged \/ "list" \in call[c].met)
  /\ page' = page /\ loading' = loading

Untouched == UNCHANGED <<total, replies, spliced, smudged>>

LEMMA AnsweredFacts ==
  ASSUME Types, Numbers, NEW c \in Calls, PostAnswered(c)
  PROVE  /\ call[c] \in PostCall /\ call[c].at = "done" /\ draft' = 0
         /\ call[c].id \in rows
         /\ call[c].total + 1 \in Nat /\ call[c].total + 1 <= Cardinality(rows)
         /\ NewLastPage(c) \in Page /\ NewLastPage(c) = PagesOf(call[c].total + 1)
         /\ \/ Appended(c)
            \/ /\ Fetching(c, NewLastPage(c)) /\ Untouched /\ page' = page /\ loading'
               /\ page # NewLastPage(c) => "post" \in call'[c].met
            \/ Fetching(c, NewLastPage(c)) /\ Untouched /\ page' = NewLastPage(c) /\ loading'
            \/ /\ Changed(c) /\ call'[c] = NoCall /\ Untouched /\ page' = page /\ loading' = loading
               /\ page # call[c].page
<1>1. PICK r \in PostCall : r = call[c] /\ r.at = "done"
  BY Kinds DEF PostAnswered, Pending
<1>2. r.total \in Nat /\ r.total < Cardinality(rows) /\ r.id \in rows /\ r.known \in SUBSET Ids
  BY <1>1 DEF Numbers, Sound, PostCall
<1>3. PICK n \in Nat : n = r.total + 1 /\ n > 0 /\ n <= Cardinality(rows) /\ n <= MaxReplies
  BY <1>2, RowsAreFinite, BoundsAssumption
<1>4. PagesOf(n) \in Page
  BY <1>3, PagesInRange
<1>5. PICK p \in Page : p = NewLastPage(c) /\ p = PagesOf(call[c].total + 1)
  BY <1>1, <1>3, <1>4 DEF NewLastPage
<1>6. ASSUME Fits(c), replies' = Append(replies, [id |-> call[c].id, vote |-> "none"]),
             total' = call[c].total + 1,
             spliced' = (spliced \/ call[c].met \cap {"list", "post"} # {}),
             smudged' = (smudged \/ "list" \in call[c].met), End(c), UNCHANGED <<page, loading>>
      PROVE  Appended(c)
  BY <1>6, EndFields DEF Appended, Changed, Crossed, Fits
<1>7. ASSUME NewLastPage(c) = call[c].page, loading' = TRUE,
             Begin(c, [FetchOf(call[c].page) EXCEPT
                         !.known = call[c].known,
                         !.met = IF page = call[c].page THEN {} ELSE {"post"}])
      PROVE  Fetching(c, p) /\ (page # p => "post" \in call'[c].met) /\ loading'
  <2>1. PICK m \in SUBSET Kind : m = IF page = call[c].page THEN {} ELSE {"post"}
    BY DEF Kind
  <2>2. Begin(c, [FetchOf(p) EXCEPT !.known = r.known, !.met = m])
    BY <1>1, <1>5, <1>7, <2>1
  <2>3. Fetching(c, p) /\ m \subseteq call'[c].met
    BY <1>2, <2>2, FetchFacts
  <2>4. QED
    BY <1>5, <1>7, <2>1, <2>3
<1>8. ASSUME Fetch(c, NewLastPage(c))
      PROVE  Fetching(c, p) /\ page' = p /\ loading'
  BY <1>5, <1>8, FetchOfFacts DEF Fetch
<1>9. ASSUME End(c) PROVE Changed(c) /\ call'[c] = NoCall
  BY <1>9, EndFields DEF Changed
<1>10. draft' = 0
  BY DEF PostAnswered
<1>11. \/ Appended(c)
       \/ /\ Fetching(c, NewLastPage(c)) /\ Untouched /\ page' = page /\ loading'
          /\ page # NewLastPage(c) => "post" \in call'[c].met
       \/ Fetching(c, NewLastPage(c)) /\ Untouched /\ page' = NewLastPage(c) /\ loading'
       \/ /\ Changed(c) /\ call'[c] = NoCall /\ Untouched /\ page' = page /\ loading' = loading
          /\ page # call[c].page
  BY <1>5, <1>6, <1>7, <1>8, <1>9 DEF PostAnswered, Untouched
<1>12. QED
  BY <1>1, <1>2, <1>3, <1>5, <1>10, <1>11

-----------------------------------------------------------------------------
(* Types                                                                   *)

LEMMA InitTypes == Init => Types
<1> SUFFICES ASSUME Init PROVE Types
  OBVIOUS
<1>1. First \in Nat /\ MaxReplies \in Nat /\ First <= MaxReplies /\ MaxTexts \in Nat
  BY BoundsAssumption
<1>2. 1 \in Page /\ First \in 0..MaxReplies /\ rows \subseteq 1..begun
  BY <1>1 DEF Init, Page
<1>3. FetchOf(1) \in ListCall
  <2>1. PICK t \in Seq(Item) : t = <<>>
    <3>1. <<>> \in Seq(Item)
      OBVIOUS
    <3>2. QED
      BY <3>1, Zenon
  <2>2. PICK k \in SUBSET Ids, e \in SUBSET Ids, m \in SUBSET Kind : k = {} /\ e = {} /\ m = {}
    OBVIOUS
  <2>3. PICK p \in Page : p = 1
    BY <1>2
  <2>4. FetchOf(1) = [kind |-> "list", at |-> "sent", page |-> p, total |-> 0, items |-> t,
                      known |-> k, want |-> e, met |-> m]
    BY <2>1, <2>2, <2>3 DEF FetchOf, Init
  <2>5. QED
    BY <2>4 DEF ListCall
<1>4. call \in [Calls -> CallRecord]
  BY <1>3 DEF Init, CallRecord
<1>5. replies \in Seq(Item)
  BY DEF Init
<1>6. copies \in [1..MaxTexts -> Nat] /\ faults \in [Faults -> Nat]
  BY DEF Init
<1>7. owed \in [id : Ids \cup {0}, rank : 0..MaxReplies]
  BY <1>1 DEF Init, NobodyOwed
<1>8. typed \in 0..MaxTexts /\ draft \in 0..typed
  BY <1>1 DEF Init
<1>9. begun \in 0..MaxReplies /\ page \in Page /\ pages \in Page /\ total \in Nat /\ loading \in BOOLEAN
  BY <1>1, <1>2 DEF Init
<1>10. votes \in [Ids -> Ballot \cup {"none"}] /\ Voted \subseteq rows
       /\ cache \subseteq rows /\ shownPage \in Page \cup {0}
       /\ {spliced, smudged, spoilt} \subseteq BOOLEAN
  BY DEF Init, Voted
<1>11. QED
  BY <1>2, <1>4, <1>5, <1>6, <1>7, <1>8, <1>9, <1>10 DEF Types

LEMMA RankInRows ==
  ASSUME Types, NEW k \in rows
  PROVE  Rank(k) \in 0..MaxReplies
<1>1. PICK A \in SUBSET rows : A = {j \in rows : j <= k}
  OBVIOUS
<1>2. Cardinality(A) \in Nat /\ Cardinality(A) <= Cardinality(rows)
  BY RowsAreFinite, FS_Subset, FS_CardinalityType
<1>3. Cardinality(A) \in 0..MaxReplies
  BY <1>2, RowsAreFinite, BoundsAssumption
<1>4. QED
  BY <1>1, <1>3 DEF Rank

\* The steps of the calls in flight keep the types.
LEMMA TypesStep == ASSUME Base, Next PROVE Types'
<1> USE SameVotes DEF Base
<1>1. CASE OtherBegins
  <2>1. begun' \in 0..MaxReplies /\ rows' \subseteq 1..begun'
    BY <1>1, BoundsAssumption DEF Types, OtherBegins
  <2>2. UNCHANGED <<rows, votes, copies, screen, draft, call, faults, history>>
    BY <1>1 DEF OtherBegins
  <2>3. QED
    BY <2>1, <2>2 DEF Types, screen, history
<1>2. ASSUME NEW k \in Ids, OtherCommits(k) PROVE Types'
  BY <1>2 DEF Types, OtherCommits, screen, history
<1>3. CASE Type
  <2>1. typed' \in 0..MaxTexts /\ draft' \in 0..typed' /\ spoilt' \in BOOLEAN
    BY <1>3, BoundsAssumption DEF Types, Type
  <2>2. UNCHANGED <<server, screen, call, faults, shownPage, spliced, smudged, owed>>
    BY <1>3 DEF Type
  <2>3. QED
    BY <2>1, <2>2 DEF Types, server, screen
<1>4. ASSUME NEW c \in Calls, NEW p \in 1..(MaxReplies + 1), GoToPage(c, p) PROVE Types'
  <2>1. Fetching(c, p) /\ page' = p
    BY <1>4, GoToPageFacts DEF Page
  <2>2. owed' \in [id : Ids \cup {0}, rank : 0..MaxReplies]
    BY <1>4, BoundsAssumption DEF GoToPage, NobodyOwed
  <2>3. QED
    BY <1>4, <2>1, <2>2 DEF Types, GoToPage, Fetch, server, Fetching, Joined, Page
<1>5. ASSUME NEW c \in Calls, NEW k \in Votable, NEW want \in Ballot, Vote(c, k, want) PROVE Types'
  BY <1>5, VoteFacts DEF Types, Vote, server, screen, history, Joined
<1>6. ASSUME NEW c \in Calls, Submit(c) PROVE Types'
  BY <1>6, SubmitFacts DEF Types, Submit, server, screen, Joined
<1>7. ASSUME NEW c \in Calls, Count(c) PROVE Types'
  BY <1>7, CountFacts DEF Types, Count, server, screen, history, Advanced, Changed
<1>8. ASSUME NEW c \in Calls, Read(c) PROVE Types'
  BY <1>8, ReadFacts DEF Types, Read, server, screen, history, Advanced, Changed
<1>9. ASSUME NEW c \in Calls, ShowList(c) PROVE Types'
  <2>1. PICK r \in ListCall : r = call[c] /\ r.total <= Cardinality(rows)
    BY <1>9, ShowListFacts DEF Numbers, Sound, ListCall
  <2>2. call' \in [Calls -> CallRecord] /\ loading' \in BOOLEAN
    BY <1>9, ShowListFacts DEF Changed, Types
  <2>3. r.total \in Nat /\ r.total <= MaxReplies /\ r.page \in Page
    BY <2>1, RowsAreFinite, BoundsAssumption DEF ListCall
  <2>4. 1 \in Page /\ (r.total # 0 => PagesOf(r.total) \in Page)
    BY <2>3, PagesInRange
  <2>5. pages' \in Page /\ total' \in Nat /\ replies' \in Seq(Item)
    BY <1>9, <2>1, <2>3, <2>4 DEF ShowList, ListCall
  <2>6. shownPage' \in Page \cup {0} /\ {spliced', smudged', spoilt'} \subseteq BOOLEAN
    <3>1. shownPage' = IF Crossed(call[c]) THEN 0 ELSE call[c].page
      BY <1>9 DEF ShowList, Crossed
    <3>2. smudged' \in BOOLEAN /\ spliced' \in BOOLEAN
      <4>1. smudged' = ("vote" \in call[c].met) /\ spliced' = FALSE
        BY <1>9 DEF ShowList
      <4>2. CASE "vote" \in call[c].met
        BY <4>1, <4>2
      <4>3. CASE ~("vote" \in call[c].met)
        <5>1. ("vote" \in call[c].met) = FALSE
          BY <4>3
        <5>2. smudged' = FALSE
          BY <4>1, <5>1, Zenon
        <5>3. QED
          BY <4>1, <5>2
      <4>4. QED
        BY <4>2, <4>3
    <3>3. spoilt' \in BOOLEAN
      BY <1>9 DEF ShowList, Types
    <3>4. QED
      BY <2>1, <2>3, <3>1, <3>2, <3>3
  <2>7. UNCHANGED <<server, page, cache, draft, faults, typed, spoilt, owed>>
    BY <1>9 DEF ShowList
  <2>8. QED
    BY <2>2, <2>5, <2>6, <2>7 DEF Types, server
<1>10. ASSUME NEW c \in Calls, ShowParents(c) PROVE Types'
  BY <1>10, ShowParentsFacts DEF Types, ShowParents, server, history, Changed
<1>11. ASSUME NEW c \in Calls, PostBegins(c) PROVE Types'
  <2>1. call' \in [Calls -> CallRecord] /\ begun + 1 \in Ids
    BY <1>11, PostBeginsFacts DEF Advanced, Changed
  <2>2. begun' = begun + 1 /\ UNCHANGED <<rows, votes, copies, screen, draft, faults, history>>
    BY <1>11 DEF PostBegins
  <2>3. begun' \in 0..MaxReplies /\ rows' \subseteq 1..begun'
    BY <2>1, <2>2, BoundsAssumption DEF Types, Ids
  <2>4. QED
    BY <2>1, <2>2, <2>3 DEF Types, screen, history
<1>12. ASSUME NEW c \in Calls, PostCommits(c) PROVE Types'
  <2>1. /\ Changed(c) /\ call[c] \in PostCall /\ call[c].id \in 1..begun
    BY <1>12, PostCommitsFacts DEF Advanced
  <2>2. PICK t \in 1..MaxTexts : t = call[c].text
    BY <2>1 DEF PostCall
  <2>3. copies' \in [1..MaxTexts -> Nat]
    BY <1>12, <2>2 DEF PostCommits, Types
  <2>4. QED
    BY <1>12, <2>1, <2>3 DEF Types, PostCommits, screen, history, Changed
<1>13. ASSUME NEW c \in Calls, PostAnswered(c) PROVE Types'
  <2>1. PICK r \in PostCall : r = call[c] /\ r.id \in rows
    BY <1>13, AnsweredFacts
  <2>2. PICK b \in Item : b = [id |-> call[c].id, vote |-> "none"]
    BY <2>1, RowsAreIds DEF Item
  <2>3. Append(replies, b) \in Seq(Item) /\ replies \in Seq(Item)
    BY DEF Types
  <2>4. /\ call' \in [Calls -> CallRecord] /\ replies' \in Seq(Item) /\ page' \in Page
        /\ total' \in Nat /\ loading' \in BOOLEAN /\ {spliced', smudged'} \subseteq BOOLEAN
    <3>1. CASE Appended(c)
      BY <1>13, <2>2, <2>3, <3>1, AnsweredFacts DEF Types, Appended, Changed
    <3>2. CASE Fetching(c, NewLastPage(c)) /\ Untouched /\ page' \in {page, NewLastPage(c)} /\ loading'
      <4>1. loading' = TRUE
        BY <1>13, <3>2 DEF PostAnswered, Fetch, Types
      <4>2. QED
        BY <1>13, <3>2, <4>1, AnsweredFacts DEF Types, Fetching, Joined, Untouched
    <3>3. CASE Changed(c) /\ Untouched /\ page' = page /\ loading' = loading
      BY <1>13, <3>3 DEF Types, Changed, Untouched
    <3>4. QED
      BY <1>13, <3>1, <3>2, <3>3, AnsweredFacts
  <2>5. owed' \in [id : Ids \cup {0}, rank : 0..MaxReplies]
    BY <1>13, <2>1, RankInRows, RowsAreIds, BoundsAssumption DEF PostAnswered, NobodyOwed
  <2>6. QED
    BY <1>13, <2>4, <2>5 DEF Types, PostAnswered, server
<1>14. ASSUME NEW c \in Calls, VoteCommits(c) PROVE Types'
  <2>1. call[c].id \in rows /\ Changed(c) /\ call'[c] \in VoteCall
    BY <1>14, VoteCommitsFacts DEF Numbers, Sound, ListCall, PostCall, VoteCall, Advanced
  <2>2. Voted' \subseteq rows /\ votes' \in [Ids -> Ballot \cup {"none"}]
    BY <1>14, <2>1, VoteCommitsFacts DEF Types, VoteCall
  <2>3. QED
    BY <1>14, <2>1, <2>2 DEF Types, VoteCommits, screen, history, Changed
<1>15. ASSUME NEW c \in Calls, VoteAnswered(c) PROVE Types'
  <2>1. replies' \in Seq(Item) /\ call' \in [Calls -> CallRecord]
    BY <1>15, VoteAnsweredFacts DEF Changed
  <2>2. smudged' \in BOOLEAN
    BY <1>15 DEF VoteAnswered, Types
  <2>3. QED
    BY <1>15, <2>1, <2>2 DEF Types, VoteAnswered, server
<1>16. ASSUME NEW c \in Calls, Refused(c) PROVE Types'
  <2>1. call' \in [Calls -> CallRecord] /\ faults' \in [Faults -> Nat]
    BY <1>16, RefusedFacts DEF Changed
  <2>2. shownPage' \in Page \cup {0} /\ {smudged', spoilt'} \subseteq BOOLEAN /\ loading' \in BOOLEAN
    BY <1>16 DEF Refused, Failed, Types
  <2>3. QED
    BY <1>16, <2>1, <2>2 DEF Types, Refused, server
<1>17. ASSUME NEW c \in Calls, Lost(c) PROVE Types'
  <2>1. call' \in [Calls -> CallRecord] /\ faults' \in [Faults -> Nat]
    BY <1>17, LostFacts DEF Changed
  <2>2. shownPage' \in Page \cup {0} /\ {smudged', spoilt'} \subseteq BOOLEAN
    BY <1>17 DEF Lost, Failed, Types
  <2>3. QED
    BY <1>17, <2>1, <2>2 DEF Types, Lost, server, screen
<1>18. ASSUME NEW c \in Calls, VoteReads(c) \/ VoteRunsAgain(c) \/ VoteConflicts(c) PROVE Types'
  <2>1. call' \in [Calls -> CallRecord]
    BY <1>18, VoteReadsFacts, VoteRunsAgainFacts, VoteConflictsFacts DEF Advanced, Changed
  <2>2. UNCHANGED <<server, screen, draft, faults, history>> /\ Voted' = Voted
    BY <1>18, SameVotes DEF VoteReads, VoteRunsAgain, VoteConflicts, server
  <2>3. QED
    BY <2>1, <2>2 DEF Types, server, screen, history
<1>19. QED
  BY <1>1, <1>2, <1>3, <1>4, <1>5, <1>6, <1>7, <1>8, <1>9, <1>10, <1>11, <1>12, <1>13, <1>14,
     <1>15, <1>16, <1>17, <1>18 DEF Next, Serve

-----------------------------------------------------------------------------
(* Numbers                                                                 *)

\* Replies are only added, so that counts and ranks only grow.
LEMMA RowsGrow ==
  ASSUME Base, Next
  PROVE  /\ rows \subseteq rows' /\ Cardinality(rows) <= Cardinality(rows')
         /\ \A k \in rows : Rank(k)' \in Nat /\ Rank(k) <= Rank(k)'
<1>1. Types /\ Types'
  BY TypesStep DEF Base
<1>2. rows \subseteq rows'
  BY DEF Next, Serve, OtherBegins, OtherCommits, Type, GoToPage, Vote, Submit, Refused, Lost, Count,
         Read, ShowList, ShowParents, PostBegins, PostCommits, PostAnswered, VoteReads,
         VoteRunsAgain, VoteCommits, VoteConflicts, VoteAnswered, server
<1>3. IsFiniteSet(rows')
  <2>1. begun' \in Nat /\ rows' \in SUBSET (1..begun')
    BY <1>1, BoundsAssumption DEF Types
  <2>2. PICK n \in Nat : n = begun'
    BY <2>1
  <2>3. IsFiniteSet(1..n)
    BY FS_Interval
  <2>4. QED
    BY <2>1, <2>2, <2>3, FS_Subset
<1>4. PICK R, S : R = rows /\ S = rows'
  OBVIOUS
<1>5. IsFiniteSet(S) /\ R \in SUBSET S
  BY <1>2, <1>3, <1>4
<1>6. Cardinality(R) <= Cardinality(S)
  BY <1>5, FS_Subset
<1>7. ASSUME NEW k \in rows
      PROVE  Rank(k)' \in Nat /\ Rank(k) <= Rank(k)'
  <2>1. PICK A, B : A = {j \in rows : j <= k} /\ B = {j \in rows' : j <= k}
    OBVIOUS
  <2>2. IsFiniteSet(B) /\ A \in SUBSET B
    <3>1. B \in SUBSET S /\ A \in SUBSET B
      BY <1>2, <1>4, <2>1
    <3>2. QED
      BY <1>5, <3>1, FS_Subset
  <2>3. Cardinality(A) <= Cardinality(B) /\ Cardinality(B) \in Nat
    BY <2>2, FS_Subset, FS_CardinalityType
  <2>4. QED
    BY <2>1, <2>3 DEF Rank
<1>8. QED
  BY <1>2, <1>4, <1>6, <1>7

LEMMA KeptIsSound ==
  ASSUME NEW r \in CallRecord, NEW s, Kept(r, s), Sound(r)
  PROVE  Sound(s)
BY DEF Kept, Sound, CallRecord, ListCall, PostCall, VoteCall, NoCall

LEMMA NoCallIsSound == Sound(NoCall)
BY DEF Sound, NoCall

\* Where no reply is added, only one call has to be looked at.
LEMMA NumbersKept ==
  ASSUME Base, UNCHANGED <<begun, rows, copies>>, NEW c \in Calls,
         Sound(call'[c]),
         call'[c].kind = "post" =>
           call'[c].at = "sent"
             \/ (call[c].kind = "post" /\ call'[c].id = call[c].id /\ call[c].at # "sent"),
         \A d \in Calls \ {c} : call'[d] = call[d] \/ Kept(call[d], call'[d]),
         Shown' \subseteq rows, total' <= Cardinality(rows)
  PROVE  Numbers'
<1>1. ASSUME NEW d \in Calls PROVE Sound(call[d])'
  <2>1. Sound(call'[d])
    <3>1. call[d] \in CallRecord /\ Sound(call[d])
      BY DEF Base, Types, Numbers
    <3>2. QED
      BY <3>1, KeptIsSound
  <2>2. QED
    BY <2>1 DEF Sound
<1>2. \A d \in Calls : call'[d].kind = "post" /\ call'[d].at # "sent" =>
        call[d].kind = "post" /\ call'[d].id = call[d].id /\ call[d].at # "sent"
  <2>1. ASSUME NEW d \in Calls \ {c}, Kept(call[d], call'[d]), call'[d].kind = "post"
        PROVE  call[d].kind = "post" /\ call'[d].id = call[d].id /\ call[d].at = call'[d].at
    BY <2>1, Kinds DEF Kept, Base
  <2>2. QED
    BY <2>1
<1>3. \A d, e \in Pending("post")' :
        d # e /\ call'[d].at # "sent" /\ call'[e].at # "sent" => call'[d].id # call'[e].id
  BY <1>2 DEF Pending, Base, Numbers
<1>4. \A k : ParentIsThere(k)' <=> ParentIsThere(k)
  BY DEF ParentIsThere
<1>5. QED
  BY <1>1, <1>3, <1>4 DEF Base, Numbers

LEMMA JoinedKeeps ==
  ASSUME Types, NEW c \in Calls, NEW k, Joined(c, k)
  PROVE  \A d \in Calls \ {c} : call'[d] = call[d] \/ Kept(call[d], call'[d])
BY DEF Joined

LEMMA FetchingIsSound ==
  ASSUME Types, NEW c \in Calls, NEW p, Fetching(c, p)
  PROVE  Sound(call'[c]) /\ call'[c].kind = "list"
<1>1. Cardinality(rows) \in Nat
  BY RowsAreFinite
<1>2. Listed(<<>>) = {}
  BY DEF Listed
<1>3. QED
  BY <1>1, <1>2 DEF Fetching, Sound, ListCall

LEMMA InitNumbers == Init => Numbers /\ Meet
<1> SUFFICES ASSUME Init PROVE Numbers /\ Meet
  OBVIOUS
<1>1. Types
  BY InitTypes
<1>2. Cardinality(rows) \in Nat
  BY <1>1, RowsAreFinite
<1>3. Shown \subseteq rows
  BY DEF Init, Shown
<1>4. PICK c \in Calls : call = [d \in Calls |-> IF d = c THEN FetchOf(1) ELSE NoCall]
  BY DEF Init
<1>5. Sound(FetchOf(1)) /\ FetchOf(1).kind = "list"
  BY <1>2 DEF FetchOf, Sound, Listed
<1>6. \A d \in Calls : Sound(call[d]) /\ call[d].kind # "post" /\ (d # c => call[d] = NoCall)
  BY <1>4, <1>5, NoCallIsSound DEF NoCall
<1>7. ASSUME NEW k \in 1..begun PROVE ParentIsThere(k)
  <2>1. k \in Ids /\ k \in 1..First /\ rows = 1..First
    BY BoundsAssumption DEF Init, Ids
  <2>2. ParentOf[k] \in Ids \cup {0} /\ ParentOf[k] < k
    BY <2>1, ParentAssumption
  <2>3. QED
    BY <2>1, <2>2, BoundsAssumption DEF ParentIsThere, Ids
<1>8. \A t \in 1..MaxTexts : copies[t] <= Cardinality(rows)
  BY <1>2 DEF Init
<1>9. total <= Cardinality(rows)
  BY <1>2 DEF Init
<1>10. QED
  BY <1>3, <1>6, <1>7, <1>8, <1>9 DEF Numbers, Meet, Pending

\* An answer that is shown or lost leaves nothing to check.
LEMMA EndedIsSound ==
  ASSUME NEW c \in Calls, call'[c] = NoCall
  PROVE  Sound(call'[c]) /\ call'[c].kind = "none"
BY NoCallIsSound DEF NoCall

LEMMA AppendShows ==
  ASSUME Types, NEW b \in Item, replies' = Append(replies, b)
  PROVE  /\ Shown' = Shown \cup {b.id} /\ Len(replies') = Len(replies) + 1
         /\ DOMAIN replies = 1..Len(replies) /\ DOMAIN replies' = 1..(Len(replies) + 1)
         /\ \A i \in 1..Len(replies) : replies'[i] = replies[i]
         /\ replies'[Len(replies) + 1] = b
<1>1. PICK n \in Nat : n = Len(replies) /\ DOMAIN replies = 1..n /\ replies \in [1..n -> Item]
  BY DEF Types
<1>2. Len(replies') = n + 1 /\ DOMAIN replies' = 1..(n + 1)
  BY <1>1 DEF Types
<1>3. (\A i \in 1..n : replies'[i] = replies[i]) /\ replies'[n + 1] = b
  BY <1>1 DEF Types
<1>4. Shown' = Shown \cup {b.id}
  <2>1. Shown' = {replies'[i].id : i \in 1..(n + 1)}
    BY <1>2 DEF Shown
  <2>2. Shown = {replies[i].id : i \in 1..n}
    BY <1>1 DEF Shown
  <2>3. \A i \in 1..(n + 1) : i \in 1..n \/ i = n + 1
    OBVIOUS
  <2>4. \A i \in 1..n : i \in 1..(n + 1)
    OBVIOUS
  <2>5. n + 1 \in 1..(n + 1)
    OBVIOUS
  <2>6. QED
    BY <1>3, <2>1, <2>2, <2>3, <2>4, <2>5
<1>5. QED
  BY <1>1, <1>2, <1>3, <1>4

\* Replies are added by commits alone, and begun posts have numbers of their own.
LEMMA NumbersStep == ASSUME Base, Next PROVE Numbers'
<1> USE DEF Base
<1>1. CASE OtherBegins
  <2>1. begun \in Nat /\ begun' = begun + 1 /\ ParentIsThere(begun + 1)
        /\ UNCHANGED <<rows, copies, replies, total, call>>
    BY <1>1 DEF OtherBegins, Types, screen
  <2>2. \A k \in 1..begun' : ParentIsThere(k)'
    BY <2>1 DEF Numbers, ParentIsThere
  <2>3. ASSUME NEW c \in Calls PROVE Sound(call[c])'
    <3>1. Sound(call[c])
      BY DEF Numbers
    <3>2. QED
      BY <2>1, <3>1 DEF Sound
  <2>4. Shown' \subseteq rows'
    BY <2>1 DEF Numbers, Shown
  <2>5. QED
    BY <2>1, <2>2, <2>3, <2>4 DEF Numbers, Pending
<1>2. ASSUME NEW k \in Ids, OtherCommits(k) PROVE Numbers'
  <2>1. /\ rows' = rows \cup {k} /\ k \in (1..begun) \ rows
        /\ UNCHANGED <<begun, copies, replies, total, call>>
        /\ \A c \in Pending("post") : call[c].at = "begun" => call[c].id # k
    BY <1>2 DEF OtherCommits, screen
  <2>2. PICK m \in Nat, n \in Nat : m = Cardinality(rows) /\ n = Cardinality(rows') /\ m <= n
    BY <2>1, OneMoreRow, RowsAreFinite
  <2>3. ASSUME NEW c \in Calls PROVE Sound(call[c])'
    <3>1. PICK r \in CallRecord : r = call[c] /\ Sound(r)
      BY DEF Types, Numbers
    <3>2. r.kind = "post" /\ r.at = "begun" => r.id \in (1..begun) \ rows'
      BY <2>1, <3>1 DEF Sound, Pending
    <3>3. r.kind = "list" => r \in ListCall /\ r.total <= n
      BY <2>2, <3>1 DEF Sound, CallRecord, NoCall, ListCall, PostCall, VoteCall
    <3>4. r.kind = "post" => r \in PostCall /\ r.total <= n /\ (r.at = "done" => r.total < n)
      BY <2>2, <3>1 DEF Sound, CallRecord, NoCall, ListCall, PostCall, VoteCall
    <3>5. QED
      BY <2>1, <2>2, <3>1, <3>2, <3>3, <3>4 DEF Sound
  <2>4. Shown' \subseteq rows' /\ total' <= Cardinality(rows')
    BY <2>1, <2>2 DEF Numbers, Shown, Types
  <2>5. \A j \in 1..begun : ParentIsThere(j)'
    BY <2>1 DEF Numbers, ParentIsThere
  <2>6. \A t \in 1..MaxTexts : copies[t] <= n
    BY <2>2 DEF Numbers, Types
  <2>7. QED
    BY <2>1, <2>2, <2>3, <2>4, <2>5, <2>6 DEF Numbers, Pending
<1>3. CASE Type
  BY <1>3 DEF Type, Numbers, Sound, server, screen, Shown, Pending, ParentIsThere
<1>4. ASSUME NEW c \in Calls, NEW p \in 1..(MaxReplies + 1), GoToPage(c, p) PROVE Numbers'
  <2>1. Fetching(c, p) /\ Joined(c, "list")
    BY <1>4, GoToPageFacts DEF Page, Fetching
  <2>2. UNCHANGED <<begun, rows, copies, replies, total>>
    BY <1>4 DEF GoToPage, server
  <2>3. Shown' \subseteq rows /\ total' <= Cardinality(rows)
    BY <2>2 DEF Numbers, Shown
  <2>4. QED
    BY <2>1, <2>2, <2>3, JoinedKeeps, FetchingIsSound, NumbersKept
<1>5. ASSUME NEW c \in Calls, NEW k \in Votable, NEW want \in Ballot, Vote(c, k, want) PROVE Numbers'
  <2>1. UNCHANGED <<begun, rows, copies, replies, total>>
    BY <1>5 DEF Vote, server, screen
  <2>2. Shown' \subseteq rows /\ total' <= Cardinality(rows)
    BY <2>1 DEF Numbers, Shown
  <2>3. Sound(call'[c]) /\ call'[c].kind = "vote"
    BY <1>5, VoteFacts DEF Numbers, Sound, VoteCall
  <2>4. QED
    BY <1>5, <2>1, <2>2, <2>3, VoteFacts, JoinedKeeps, NumbersKept
<1>6. ASSUME NEW c \in Calls, Submit(c) PROVE Numbers'
  <2>1. UNCHANGED <<begun, rows, copies, replies, total>>
    BY <1>6 DEF Submit, server, screen
  <2>2. Shown' \subseteq rows /\ total' <= Cardinality(rows)
    BY <2>1 DEF Numbers, Shown
  <2>3. Sound(call'[c]) /\ call'[c].at = "sent"
    BY <1>6, SubmitFacts DEF Numbers, Sound, PostCall
  <2>4. \A d \in Calls \ {c} : call'[d] = call[d] \/ Kept(call[d], call'[d])
    BY <1>6, SubmitFacts, JoinedKeeps
  <2>5. QED
    BY <2>1, <2>2, <2>3, <2>4, NumbersKept
<1>7. ASSUME NEW c \in Calls, Count(c) PROVE Numbers'
  <2>1. UNCHANGED <<begun, rows, copies, replies, total>>
    BY <1>7 DEF Count, server, screen
  <2>2. Shown' \subseteq rows /\ total' <= Cardinality(rows)
    BY <2>1 DEF Numbers, Shown
  <2>3. Sound(call'[c]) /\ call'[c].kind = "list" /\ Changed(c)
    BY <1>7, CountFacts, RowsAreFinite DEF Numbers, Sound, ListCall, Advanced, PostCall, VoteCall
  <2>4. QED
    BY <2>1, <2>2, <2>3, NumbersKept DEF Changed
<1>8. ASSUME NEW c \in Calls, Read(c) PROVE Numbers'
  <2>1. UNCHANGED <<begun, rows, copies, replies, total>>
    BY <1>8 DEF Read, server, screen
  <2>2. Shown' \subseteq rows /\ total' <= Cardinality(rows)
    BY <2>1 DEF Numbers, Shown
  <2>3. call[c].page \in Page /\ Listed(Slice(call[c].page)) \subseteq rows
    BY <1>8, ReadFacts, SliceFacts DEF ListCall
  <2>4. Sound(call'[c]) /\ call'[c].kind = "list" /\ Changed(c)
    BY <1>8, <2>3, ReadFacts DEF Numbers, Sound, ListCall, Advanced, PostCall, VoteCall
  <2>5. QED
    BY <2>1, <2>2, <2>4, NumbersKept DEF Changed
<1>9. ASSUME NEW c \in Calls, ShowList(c) PROVE Numbers'
  <2>1. PICK r \in ListCall : r = call[c] /\ Sound(r) /\ r.total <= Cardinality(rows)
                              /\ Listed(r.items) \subseteq rows
    BY <1>9, ShowListFacts DEF Numbers, Sound, ListCall
  <2>2. UNCHANGED <<begun, rows, copies>> /\ replies' = r.items /\ total' = r.total
    BY <1>9, <2>1 DEF ShowList, server
  <2>3. Shown' \subseteq rows /\ total' <= Cardinality(rows)
    BY <2>1, <2>2 DEF Listed, Shown
  <2>4. Sound(call'[c]) /\ call'[c].kind \in {"list", "none"} /\ Changed(c)
    BY <1>9, <2>1, ShowListFacts, EndedIsSound DEF Sound, ListCall, Advanced, PostCall, VoteCall
  <2>5. QED
    BY <2>2, <2>3, <2>4, NumbersKept DEF Changed
<1>10. ASSUME NEW c \in Calls, ShowParents(c) PROVE Numbers'
  <2>1. UNCHANGED <<begun, rows, copies, replies, total>>
    BY <1>10 DEF ShowParents, server
  <2>2. Shown' \subseteq rows /\ total' <= Cardinality(rows)
    BY <2>1 DEF Numbers, Shown
  <2>3. QED
    BY <1>10, <2>1, <2>2, ShowParentsFacts, EndedIsSound, NumbersKept DEF Changed
<1>11. ASSUME NEW c \in Calls, PostBegins(c) PROVE Numbers'
  <2>1. begun \in Nat /\ begun' = begun + 1 /\ ParentIsThere(begun + 1)
        /\ UNCHANGED <<rows, copies, replies, total>>
    BY <1>11 DEF PostBegins, Types, screen
  <2>2. PICK s \in PostCall : s = call'[c] /\ s.at = "begun" /\ s.id = begun + 1
                              /\ s.total <= Cardinality(rows)
    BY <1>11, PostBeginsFacts DEF Advanced, Numbers, Sound, PostCall, ListCall, VoteCall
  <2>3. begun + 1 \notin rows
    BY DEF Types
  <2>4. \A k \in 1..begun' : ParentIsThere(k)'
    BY <2>1 DEF Numbers, ParentIsThere
  <2>5. ASSUME NEW d \in Calls PROVE Sound(call[d])'
    <3>1. CASE d = c
      BY <2>1, <2>2, <2>3, <3>1 DEF Sound, PostCall
    <3>2. CASE d # c
      <4>1. Sound(call[d]) /\ call'[d] = call[d]
        BY <1>11, <3>2, PostBeginsFacts DEF Numbers, Advanced, Changed
      <4>2. QED
        BY <2>1, <4>1 DEF Sound
    <3>3. QED
      BY <3>1, <3>2
  <2>6. Shown' \subseteq rows' /\ total' <= Cardinality(rows')
    BY <2>1 DEF Numbers, Shown
  <2>7. \A d \in Calls \ {c} : call'[d] = call[d]
    BY <1>11, PostBeginsFacts DEF Advanced, Changed
  <2>8. \A d \in Calls \ {c} : call[d].kind = "post" /\ call[d].at # "sent" =>
          call[d].id \in 1..begun
    <3>1. ASSUME NEW d \in Calls, call[d].kind = "post", call[d].at # "sent"
          PROVE  call[d].id \in 1..begun
      <4>1. call[d].at \in {"begun", "done"} /\ Sound(call[d])
        BY <3>1, Kinds DEF PostCall, Numbers
      <4>2. QED
        BY <3>1, <4>1 DEF Sound, Types
    <3>2. QED
      BY <3>1
  <2>9. \A d, e \in Pending("post")' :
          d # e /\ call'[d].at # "sent" /\ call'[e].at # "sent" => call'[d].id # call'[e].id
    <3>1. \A d \in Calls \ {c} : call'[d].kind = "post" /\ call'[d].at # "sent" =>
            d \in Pending("post") /\ call'[d].id # call'[c].id
      BY <2>1, <2>2, <2>7, <2>8 DEF Pending
    <3>2. QED
      BY <2>7, <3>1 DEF Pending, Numbers
  <2>10. QED
    BY <2>1, <2>4, <2>5, <2>6, <2>9 DEF Numbers
<1>12. ASSUME NEW c \in Calls, PostCommits(c) PROVE Numbers'
  <2>1. PICK r \in PostCall, s \in PostCall :
          r = call[c] /\ s = call'[c] /\ r.id \in (1..begun) \ rows /\ s.id = r.id
          /\ s.at = "done" /\ s.total = r.total /\ r.at = "begun" /\ r.total <= Cardinality(rows)
    BY <1>12, PostCommitsFacts DEF Advanced, ListCall, PostCall, VoteCall, Numbers, Sound
  <2>2. /\ rows' = rows \cup {r.id} /\ UNCHANGED <<begun, replies, total>>
        /\ copies' = [copies EXCEPT ![r.text] = @ + 1]
    BY <1>12, <2>1 DEF PostCommits, screen
  <2>3. PICK m \in Nat, n \in Nat : m = Cardinality(rows) /\ n = Cardinality(rows') /\ n = m + 1
    BY <2>1, <2>2, OneMoreRow, RowsAreFinite, RowsAreIds
  <2>4. \A d \in Calls \ {c} : call'[d] = call[d]
    BY <1>12, PostCommitsFacts DEF Advanced, Changed
  <2>5. ASSUME NEW d \in Calls PROVE Sound(call[d])'
    <3>1. CASE d = c
      BY <2>1, <2>2, <2>3, <3>1 DEF Sound, PostCall
    <3>2. CASE d # c
      <4>1. PICK q \in CallRecord : q = call[d] /\ q = call'[d] /\ Sound(q)
        BY <2>4, <3>2 DEF Types, Numbers
      <4>2. q.kind = "post" /\ q.at = "begun" => q.id \in (1..begun) \ rows'
        BY <2>1, <2>2, <3>2, <4>1 DEF Sound, Pending, Numbers, PostCall
      <4>3. q.kind = "list" => q \in ListCall /\ q.total <= n
        BY <2>3, <4>1 DEF Sound, CallRecord, NoCall, ListCall, PostCall, VoteCall
      <4>4. q.kind = "post" => q \in PostCall /\ q.total <= n /\ (q.at = "done" => q.total < n)
        BY <2>3, <4>1 DEF Sound, CallRecord, NoCall, ListCall, PostCall, VoteCall
      <4>5. QED
        BY <2>2, <2>3, <4>1, <4>2, <4>3, <4>4 DEF Sound
    <3>3. QED
      BY <3>1, <3>2
  <2>6. Shown' \subseteq rows' /\ total' <= Cardinality(rows')
    BY <2>2, <2>3 DEF Numbers, Shown, Types
  <2>7. \A j \in 1..begun : ParentIsThere(j)'
    BY <2>2 DEF Numbers, ParentIsThere
  <2>8. \A t \in 1..MaxTexts : copies'[t] <= n
    BY <2>2, <2>3 DEF Numbers, Types
  <2>9. \A d, e \in Pending("post")' :
          d # e /\ call'[d].at # "sent" /\ call'[e].at # "sent" => call'[d].id # call'[e].id
    <3>1. \A d \in Calls : call'[d].kind = "post" /\ call'[d].at # "sent" =>
            d \in Pending("post") /\ call[d].at # "sent" /\ call'[d].id = call[d].id
      BY <2>1, <2>4 DEF Pending, PostCall
    <3>2. QED
      BY <3>1 DEF Pending, Numbers
  <2>10. QED
    BY <2>2, <2>3, <2>5, <2>6, <2>7, <2>8, <2>9 DEF Numbers
<1>13. ASSUME NEW c \in Calls, PostAnswered(c) PROVE Numbers'
  <2>1. PICK r \in PostCall : r = call[c] /\ r.id \in rows /\ r.total + 1 <= Cardinality(rows)
    BY <1>13, AnsweredFacts
  <2>2. UNCHANGED <<begun, rows, copies>>
    BY <1>13 DEF PostAnswered, server
  <2>3. /\ Sound(call'[c]) /\ call'[c].kind # "post"
        /\ \A d \in Calls \ {c} : call'[d] = call[d] \/ Kept(call[d], call'[d])
        /\ Shown' \subseteq rows /\ total' <= Cardinality(rows)
    <3>1. CASE Appended(c)
      <4>1. PICK b \in Item : b = [id |-> call[c].id, vote |-> "none"] /\ b.id = r.id
        <5>1. PICK k \in Ids : k = r.id /\ k = call[c].id
          BY <2>1, RowsAreIds
        <5>2. [id |-> k, vote |-> "none"] \in Item
          BY DEF Item
        <5>3. QED
          BY <5>1, <5>2
      <4>2. Shown' = Shown \cup {r.id}
        BY <3>1, <4>1, AppendShows DEF Appended
      <4>3. QED
        BY <2>1, <3>1, <4>2, EndedIsSound DEF Appended, Changed, Numbers
    <3>2. CASE Fetching(c, NewLastPage(c)) /\ Untouched
      BY <3>2, FetchingIsSound, JoinedKeeps DEF Fetching, Untouched, Numbers, Shown
    <3>3. CASE Changed(c) /\ call'[c] = NoCall /\ Untouched
      BY <3>3, EndedIsSound DEF Changed, Untouched, Numbers, Shown
    <3>4. QED
      BY <1>13, <3>1, <3>2, <3>3, AnsweredFacts
  <2>4. QED
    BY <2>2, <2>3, NumbersKept
<1>14. ASSUME NEW c \in Calls, VoteReads(c) \/ VoteRunsAgain(c) \/ VoteCommits(c) PROVE Numbers'
  <2>1. UNCHANGED <<begun, rows, copies, replies, total>>
    BY <1>14 DEF VoteReads, VoteRunsAgain, VoteCommits, server, screen
  <2>2. Shown' \subseteq rows /\ total' <= Cardinality(rows)
    BY <2>1 DEF Numbers, Shown
  <2>3. Sound(call'[c]) /\ call'[c].kind = "vote" /\ Changed(c)
    BY <1>14, VoteReadsFacts, VoteRunsAgainFacts, VoteCommitsFacts
       DEF Numbers, Sound, Advanced, ListCall, PostCall, VoteCall
  <2>4. QED
    BY <2>1, <2>2, <2>3, NumbersKept DEF Changed
<1>15. ASSUME NEW c \in Calls, VoteAnswered(c) PROVE Numbers'
  <2>1. UNCHANGED <<begun, rows, copies, total>>
    BY <1>15 DEF VoteAnswered, server
  <2>2. Shown' \subseteq rows /\ total' <= Cardinality(rows)
    BY <1>15, <2>1, VoteAnsweredFacts DEF Numbers
  <2>3. QED
    BY <1>15, <2>1, <2>2, VoteAnsweredFacts, EndedIsSound, NumbersKept DEF Changed
<1>16. ASSUME NEW c \in Calls, VoteConflicts(c) \/ Refused(c) \/ Lost(c) PROVE Numbers'
  <2>1. UNCHANGED <<begun, rows, copies, replies, total>>
    BY <1>16 DEF VoteConflicts, Refused, Lost, server, screen
  <2>2. Shown' \subseteq rows /\ total' <= Cardinality(rows)
    BY <2>1 DEF Numbers, Shown
  <2>3. Changed(c) /\ call'[c] = NoCall
    BY <1>16, VoteConflictsFacts, RefusedFacts, LostFacts
  <2>4. QED
    BY <2>1, <2>2, <2>3, EndedIsSound, NumbersKept DEF Changed
<1>17. QED
  BY <1>1, <1>2, <1>3, <1>4, <1>5, <1>6, <1>7, <1>8, <1>9, <1>10, <1>11, <1>12, <1>13, <1>14,
     <1>15, <1>16 DEF Next, Serve

-----------------------------------------------------------------------------
(* Who meets whom                                                          *)

\* A call that goes on, or ends, has met the same calls as before.
LEMMA MeetAdvances ==
  ASSUME Base, NEW c \in Calls, Changed(c),
         \/ call'[c] = NoCall
         \/ call[c] # NoCall /\ call'[c].kind = call[c].kind /\ call'[c].met = call[c].met
  PROVE  Meet'
<1>1. \A d \in Calls : call'[d] # NoCall =>
        call[d] # NoCall /\ call'[d].kind = call[d].kind /\ call'[d].met = call[d].met
  BY DEF Changed
<1>2. QED
  BY <1>1 DEF Base, Meet

LEMMA AdvancedKind ==
  ASSUME NEW c \in Calls, NEW a, NEW b, Advanced(c, a, b)
  PROVE  /\ Changed(c) /\ call[c] # NoCall /\ call'[c] # NoCall
         /\ call'[c].kind = call[c].kind /\ call'[c].met = call[c].met
BY DEF Advanced, ListCall, PostCall, VoteCall, NoCall

LEMMA KeptKind ==
  ASSUME NEW r \in CallRecord, NEW s, Kept(r, s), r # NoCall
  PROVE  s # NoCall /\ s.kind = r.kind
BY DEF Kept, CallRecord, ListCall, PostCall, VoteCall, NoCall

\* A call that begins notes the others, and they note it.
LEMMA MeetBegins ==
  ASSUME Base, NEW c \in Calls, NEW k, Joined(c, k)
  PROVE  Meet'
<1>1. \A d \in Calls \ {c} : call'[d] # NoCall =>
        /\ call[d] # NoCall /\ call'[d].kind = call[d].kind
        /\ call'[d].met = call[d].met \cup {k} /\ call[d].kind \in call'[c].met
  <2>1. ASSUME NEW d \in Calls \ {c}, call'[d] # NoCall
        PROVE  /\ call[d] # NoCall /\ call'[d].kind = call[d].kind
               /\ call'[d].met = call[d].met \cup {k} /\ call[d].kind \in call'[c].met
    <3>1. call[d] # NoCall /\ Kept(call[d], call'[d])
      BY <2>1 DEF Joined
    <3>2. QED
      BY <2>1, <3>1, KeptKind DEF Joined, Base, Types
  <2>2. QED
    BY <2>1
<1>2. call'[c].kind = k
  BY DEF Joined
<1>3. \A d, e \in Calls :
        d # e /\ call'[d] # NoCall /\ call'[e] # NoCall => call'[d].kind \in call'[e].met
  BY <1>1, <1>2 DEF Base, Meet
<1>4. QED
  BY <1>3 DEF Meet

LEMMA MeetStep == ASSUME Base, Next PROVE Meet'
<1> USE DEF Base
<1>1. CASE OtherBegins \/ Type \/ \E k \in Ids : OtherCommits(k)
  BY <1>1 DEF OtherBegins, Type, OtherCommits, Meet
<1>2. ASSUME NEW c \in Calls, NEW p \in 1..(MaxReplies + 1), GoToPage(c, p) PROVE Meet'
  BY <1>2, GoToPageFacts, MeetBegins DEF Page, Fetching
<1>3. ASSUME NEW c \in Calls, NEW k \in Votable, NEW want \in Ballot, Vote(c, k, want) PROVE Meet'
  BY <1>3, VoteFacts, MeetBegins
<1>4. ASSUME NEW c \in Calls, Submit(c) PROVE Meet'
  BY <1>4, SubmitFacts, MeetBegins
<1>5. ASSUME NEW c \in Calls, \/ Count(c) \/ Read(c) \/ PostBegins(c) \/ PostCommits(c)
                              \/ VoteReads(c) \/ VoteRunsAgain(c) \/ VoteCommits(c)
      PROVE  Meet'
  BY <1>5, CountFacts, ReadFacts, PostBeginsFacts, PostCommitsFacts, VoteReadsFacts,
     VoteRunsAgainFacts, VoteCommitsFacts, AdvancedKind, MeetAdvances
<1>6. ASSUME NEW c \in Calls, ShowList(c) PROVE Meet'
  BY <1>6, ShowListFacts, AdvancedKind, MeetAdvances
<1>7. ASSUME NEW c \in Calls, \/ ShowParents(c) \/ VoteConflicts(c) \/ VoteAnswered(c)
                              \/ Refused(c) \/ Lost(c)
      PROVE  Meet'
  BY <1>7, ShowParentsFacts, VoteConflictsFacts, VoteAnsweredFacts, RefusedFacts, LostFacts,
     MeetAdvances
<1>8. ASSUME NEW c \in Calls, PostAnswered(c) PROVE Meet'
  <2>1. CASE Changed(c) /\ call'[c] = NoCall
    BY <2>1, MeetAdvances
  <2>2. CASE Fetching(c, NewLastPage(c))
    BY <2>2, MeetBegins DEF Fetching
  <2>3. QED
    BY <1>8, <2>1, <2>2, AnsweredFacts DEF Appended
<1>9. QED
  BY <1>1, <1>2, <1>3, <1>4, <1>5, <1>6, <1>7, <1>8 DEF Next, Serve

LEMMA BaseStep == ASSUME Base, Next PROVE Base'
BY TypesStep, NumbersStep, MeetStep DEF Base

-----------------------------------------------------------------------------
(* The page shown is the page asked for                                    *)

LEMMA InitPage == Init => PageInv
<1> SUFFICES ASSUME Init PROVE PageInv
  OBVIOUS
<1>1. PICK c \in Calls : call = [d \in Calls |-> IF d = c THEN FetchOf(1) ELSE NoCall]
  BY DEF Init
<1>2. FetchOf(1).page = 1
  BY DEF FetchOf
<1>3. \A d \in Pending("list") \cup Pending("post") : d = c
  BY <1>1 DEF Pending, NoCall
<1>4. QED
  BY <1>1, <1>2, <1>3 DEF Init, PageInv

\* The page that is shown is off only while another is fetched.
Fetched == \E c \in Pending("list") : call[c].at # "parents"

LEMMA PageKept ==
  ASSUME Base, PageInv, NEW c \in Calls, Changed(c), UNCHANGED page,
         shownPage' \in {shownPage, page, 0},
         \/ call[c].kind # "list" \/ call[c].at = "parents"
         \/ call'[c].kind = "list" /\ call'[c].at # "parents"
         \/ shownPage' \in {page, 0},
         call'[c].kind \in {"list", "post"} =>
           call'[c].kind = call[c].kind /\ call'[c].met = call[c].met /\ call'[c].page = call[c].page
  PROVE  PageInv'
<1>1. \A d \in Calls \ {c} : call'[d] = call[d]
  BY DEF Changed
<1>2. shownPage' \in {0, page'} \/ Fetched'
  <2>1. CASE shownPage' \in {page, 0}
    BY <2>1
  <2>2. CASE shownPage' = shownPage /\ shownPage \in {0, page}
    BY <2>2
  <2>3. CASE shownPage' \notin {page, 0} /\ Fetched
    <3>1. PICK d \in Calls : call[d].kind = "list" /\ call[d].at # "parents"
      BY <2>3 DEF Fetched, Pending
    <3>2. call'[d].kind = "list" /\ call'[d].at # "parents"
      BY <1>1, <2>3, <3>1
    <3>3. QED
      BY <3>2 DEF Fetched, Pending
  <2>4. QED
    BY <2>1, <2>2, <2>3 DEF PageInv, Fetched
<1>3. ASSUME NEW d \in Calls, call'[d].kind \in {"list", "post"}
      PROVE  Crossed(call'[d]) \/ call'[d].page = page'
  <2>1. call[d].kind \in {"list", "post"} /\ call'[d].met = call[d].met /\ call'[d].page = call[d].page
    BY <1>1, <1>3
  <2>2. Crossed(call[d]) \/ call[d].page = page
    BY <2>1 DEF PageInv, Pending
  <2>3. QED
    BY <2>1, <2>2 DEF Crossed
<1>4. QED
  BY <1>2, <1>3 DEF PageInv, Fetched, Pending, Crossed

LEMMA PageJoined ==
  ASSUME Base, PageInv, NEW c \in Calls, NEW k \in Kind, Joined(c, k),
         k = "list" \/ (call[c] = NoCall /\ UNCHANGED <<page, shownPage>>),
         k = "post" => call'[c].page = page',
         k = "list" => call'[c].at # "parents" /\ (Crossed(call'[c]) \/ call'[c].page = page')
  PROVE  PageInv'
<1>1. ASSUME NEW d \in Calls \ {c}, call'[d].kind \in {"list", "post"}
      PROVE  Crossed(call'[d]) \/ call'[d].page = page'
  <2>1. Kept(call[d], call'[d]) /\ call[d] # NoCall /\ call'[d].met = call[d].met \cup {k}
    BY <1>1 DEF Joined, NoCall
  <2>2. CASE k \in {"list", "post"}
    BY <2>1, <2>2 DEF Crossed
  <2>3. CASE k = "vote"
    <3>1. call'[d].page = call[d].page /\ call[d].kind \in {"list", "post"}
      BY <1>1, <2>1, Kinds DEF Kept, Base
    <3>2. Crossed(call[d]) \/ call[d].page = page
      BY <3>1 DEF PageInv, Pending
    <3>3. QED
      BY <2>1, <2>3, <3>1, <3>2 DEF Crossed
  <2>4. QED
    BY <2>2, <2>3 DEF Kind
<1>2. \A d \in Calls : call'[d].kind \in {"list", "post"} => Crossed(call'[d]) \/ call'[d].page = page'
  BY <1>1 DEF Joined
<1>3. shownPage' \in {0, page'} \/ Fetched'
  <2>1. CASE k = "list"
    BY <2>1 DEF Joined, Fetched, Pending
  <2>2. CASE k # "list" /\ shownPage \in {0, page}
    BY <2>2
  <2>3. CASE k # "list" /\ Fetched
    <3>1. PICK d \in Calls : call[d].kind = "list" /\ call[d].at # "parents" /\ call[d] \in ListCall
      BY <2>3, Kinds DEF Fetched, Pending, Base
    <3>2. d # c /\ call[d] # NoCall
      BY <2>3, <3>1 DEF NoCall
    <3>3. call'[d].kind = "list" /\ call'[d].at # "parents"
      BY <3>1, <3>2 DEF Joined, Kept
    <3>4. QED
      BY <3>3 DEF Fetched, Pending
  <2>4. QED
    BY <2>1, <2>2, <2>3 DEF PageInv, Fetched
<1>4. QED
  BY <1>2, <1>3 DEF PageInv, Fetched, Pending, Crossed

LEMMA PageStep == ASSUME Base, PageInv, Next PROVE PageInv'
<1> USE DEF Base
<1>1. CASE OtherBegins \/ Type \/ \E k \in Ids : OtherCommits(k)
  BY <1>1 DEF OtherBegins, Type, OtherCommits, PageInv, screen, history, Pending, Crossed
<1>2. ASSUME NEW c \in Calls, NEW p \in 1..(MaxReplies + 1), GoToPage(c, p) PROVE PageInv'
  BY <1>2, GoToPageFacts, PageJoined DEF Page, Fetching, Kind
<1>3. ASSUME NEW c \in Calls, NEW k \in Votable, NEW want \in Ballot, Vote(c, k, want) PROVE PageInv'
  BY <1>3, VoteFacts, PageJoined DEF Vote, screen, history, Kind
<1>4. ASSUME NEW c \in Calls, Submit(c) PROVE PageInv'
  BY <1>4, SubmitFacts, PageJoined DEF Submit, screen, Kind
<1>5. ASSUME NEW c \in Calls, Count(c) \/ Read(c) PROVE PageInv'
  <2>1. /\ Changed(c) /\ call'[c] \in ListCall /\ call[c] \in ListCall /\ call'[c].at # "parents"
        /\ call'[c].met = call[c].met /\ call'[c].page = call[c].page
    BY <1>5, CountFacts, ReadFacts DEF Advanced, ListCall, PostCall, VoteCall
  <2>2. UNCHANGED <<page, shownPage>>
    BY <1>5 DEF Count, Read, screen, history
  <2>3. QED
    BY <2>1, <2>2, PageKept DEF ListCall
<1>6. ASSUME NEW c \in Calls, PostBegins(c) \/ PostCommits(c) PROVE PageInv'
  <2>1. /\ Changed(c) /\ call'[c] \in PostCall /\ call[c] \in PostCall
        /\ call'[c].met = call[c].met /\ call'[c].page = call[c].page
    BY <1>6, PostBeginsFacts, PostCommitsFacts DEF Advanced, ListCall, PostCall, VoteCall
  <2>2. UNCHANGED <<page, shownPage>>
    BY <1>6 DEF PostBegins, PostCommits, screen, history
  <2>3. QED
    BY <2>1, <2>2, PageKept DEF PostCall
<1>7. ASSUME NEW c \in Calls, VoteReads(c) \/ VoteRunsAgain(c) \/ VoteCommits(c) PROVE PageInv'
  <2>1. Changed(c) /\ call'[c] \in VoteCall /\ call[c] \in VoteCall
    BY <1>7, VoteReadsFacts, VoteRunsAgainFacts, VoteCommitsFacts
       DEF Advanced, ListCall, PostCall, VoteCall
  <2>2. UNCHANGED <<page, shownPage>>
    BY <1>7 DEF VoteReads, VoteRunsAgain, VoteCommits, screen, history
  <2>3. QED
    BY <2>1, <2>2, PageKept DEF VoteCall
<1>8. ASSUME NEW c \in Calls, VoteAnswered(c) \/ VoteConflicts(c) \/ ShowParents(c) PROVE PageInv'
  <2>1. /\ Changed(c) /\ call'[c] = NoCall
        /\ call[c].kind # "list" \/ call[c].at = "parents"
    BY <1>8, VoteAnsweredFacts, VoteConflictsFacts, ShowParentsFacts DEF VoteCall
  <2>2. UNCHANGED <<page, shownPage>>
    BY <1>8 DEF VoteAnswered, VoteConflicts, ShowParents, screen, history
  <2>3. QED
    BY <2>1, <2>2, PageKept DEF NoCall
<1>9. ASSUME NEW c \in Calls, Refused(c) \/ Lost(c) PROVE PageInv'
  <2>1. Changed(c) /\ call'[c] = NoCall
    BY <1>9, RefusedFacts, LostFacts
  <2>2. /\ page' = page
        /\ shownPage' = IF call[c].kind = "list" /\ call[c].at # "parents" THEN 0 ELSE shownPage
    BY <1>9 DEF Refused, Lost, Failed, screen
  <2>3. QED
    BY <2>1, <2>2, PageKept DEF NoCall
<1>10. ASSUME NEW c \in Calls, ShowList(c) PROVE PageInv'
  <2>1. PICK r \in ListCall : r = call[c] /\ r.at = "read" /\ Changed(c)
    BY <1>10, ShowListFacts
  <2>2. page' = page /\ shownPage' = IF Crossed(r) THEN 0 ELSE r.page
    BY <1>10, <2>1 DEF ShowList, Crossed
  <2>3. Crossed(r) \/ r.page = page
    BY <2>1 DEF PageInv, Pending, ListCall
  <2>4. shownPage' \in {page, 0}
    BY <2>2, <2>3
  <2>5. call'[c].kind \in {"list", "post"} =>
          call'[c].kind = "list" /\ call'[c].met = r.met /\ call'[c].page = r.page
    <3>1. CASE Advanced(c, "read", "parents")
      BY <2>1, <3>1 DEF Advanced, ListCall, PostCall, VoteCall
    <3>2. CASE call'[c] = NoCall
      BY <3>2 DEF NoCall
    <3>3. QED
      BY <1>10, <3>1, <3>2, ShowListFacts
  <2>6. QED
    BY <2>1, <2>2, <2>4, <2>5, PageKept DEF ListCall
<1>11. ASSUME NEW c \in Calls, PostAnswered(c) PROVE PageInv'
  <2>1. PICK r \in PostCall : r = call[c]
    BY <1>11, AnsweredFacts
  <2>2. CASE Changed(c) /\ call'[c] = NoCall /\ page' = page
    <3>1. UNCHANGED shownPage
      BY <1>11 DEF PostAnswered
    <3>2. QED
      BY <2>1, <2>2, <3>1, PageKept DEF NoCall, PostCall
  <2>3. CASE Fetching(c, NewLastPage(c)) /\ (page' # NewLastPage(c) => "post" \in call'[c].met)
    <3>1. Crossed(call'[c]) \/ call'[c].page = page'
      BY <2>3 DEF Fetching, Crossed
    <3>2. Joined(c, "list") /\ call'[c].at # "parents"
      BY <2>3 DEF Fetching
    <3>3. QED
      BY <3>1, <3>2, PageJoined DEF Kind
  <2>4. QED
    BY <1>11, <2>2, <2>3, AnsweredFacts DEF Appended
<1>12. QED
  BY <1>1, <1>2, <1>3, <1>4, <1>5, <1>6, <1>7, <1>8, <1>9, <1>10, <1>11 DEF Next, Serve

-----------------------------------------------------------------------------
(* A reply that is being posted is not on the screen                       *)

LEMMA InitOwn == Init => OwnIsNew
<1> SUFFICES ASSUME Init PROVE OwnIsNew
  OBVIOUS
<1>1. \A d \in Calls : call[d].kind # "post"
  BY DEF Init, FetchOf, NoCall
<1>2. QED
  BY <1>1 DEF OwnIsNew, Pending

LEMMA OwnKept ==
  ASSUME Base, OwnIsNew, NEW c \in Calls, Changed(c),
         Shown' \subseteq Shown,
         Voted' \subseteq Voted \cup {call[d].id : d \in Pending("vote")},
         call'[c].kind = "post" => /\ call[c].kind = "post" /\ call[c].at # "sent"
                                   /\ call'[c].id = call[c].id /\ call'[c].met = call[c].met,
         call'[c].kind = "vote" => call[c].kind = "vote" /\ call'[c].id = call[c].id
  PROVE  OwnIsNew'
<1>1. \A e \in Calls : call'[e].kind = "vote" => e \in Pending("vote") /\ call'[e].id = call[e].id
  BY DEF Changed, Pending
<1>2. ASSUME NEW d \in Calls, call'[d].kind = "post", call'[d].at # "sent", "list" \notin call'[d].met
      PROVE  /\ call'[d].id \notin Shown' \cup Voted'
             /\ \A e \in Calls : call'[e].kind = "vote" => call'[e].id # call'[d].id
  <2>1. /\ d \in Pending("post") /\ call[d].at # "sent" /\ "list" \notin call[d].met
        /\ call'[d].id = call[d].id
    BY <1>2 DEF Changed, Pending
  <2>2. /\ call[d].id \notin Shown \cup Voted
        /\ \A e \in Pending("vote") : call[e].id # call[d].id
    BY <2>1 DEF OwnIsNew
  <2>3. QED
    BY <1>1, <2>1, <2>2
<1>3. QED
  BY <1>2 DEF OwnIsNew, Pending

LEMMA OwnJoined ==
  ASSUME Base, OwnIsNew, NEW c \in Calls, NEW k \in Kind, Joined(c, k),
         Shown' = Shown, votes' = votes,
         k = "post" => call'[c].at = "sent",
         k = "vote" => call'[c].id \in Shown
  PROVE  OwnIsNew'
<1>1. ASSUME NEW e \in Calls \ {c}, call'[e].kind = "vote"
      PROVE  e \in Pending("vote") /\ call'[e].id = call[e].id
  <2>1. call[e] # NoCall /\ Kept(call[e], call'[e])
    BY <1>1 DEF Joined, NoCall
  <2>2. QED
    BY <1>1, <2>1, Kinds DEF Kept, Base, Pending
<1>2. ASSUME NEW d \in Calls, call'[d].kind = "post", call'[d].at # "sent", "list" \notin call'[d].met
      PROVE  /\ call'[d].id \notin Shown' \cup Voted'
             /\ \A e \in Calls : call'[e].kind = "vote" => call'[e].id # call'[d].id
  <2>1. d # c /\ call[d] # NoCall /\ Kept(call[d], call'[d]) /\ k \in call'[d].met
        /\ call'[d].met = call[d].met \cup {k}
    BY <1>2 DEF Joined, Kind, NoCall
  <2>2. /\ d \in Pending("post") /\ call[d].at # "sent" /\ "list" \notin call[d].met
        /\ call'[d].id = call[d].id /\ k # "list"
    BY <1>2, <2>1, Kinds DEF Kept, Base, Pending
  <2>3. /\ call[d].id \notin Shown \cup Voted
        /\ \A e \in Pending("vote") : call[e].id # call[d].id
    BY <2>2 DEF OwnIsNew
  <2>4. call'[c].kind = k
    BY DEF Joined
  <2>5. QED
    BY <1>1, <2>2, <2>3, <2>4, SameVotes
<1>3. QED
  BY <1>2 DEF OwnIsNew, Pending

\* Where a list is shown, every post in flight knows of the fetch.
LEMMA OwnStep == ASSUME Base, OwnIsNew, Next PROVE OwnIsNew'
<1> USE DEF Base
<1>1. CASE OtherBegins \/ Type \/ \E k \in Ids : OtherCommits(k)
  BY <1>1, SameVotes DEF OtherBegins, Type, OtherCommits, OwnIsNew, screen, server, Pending, Shown
<1>2. ASSUME NEW c \in Calls, NEW p \in 1..(MaxReplies + 1), GoToPage(c, p) PROVE OwnIsNew'
  <2>1. Shown' = Shown /\ votes' = votes
    BY <1>2 DEF GoToPage, server, Shown
  <2>2. QED
    BY <1>2, <2>1, GoToPageFacts, OwnJoined DEF Page, Fetching, Kind
<1>3. ASSUME NEW c \in Calls, NEW k \in Votable, NEW want \in Ballot, Vote(c, k, want) PROVE OwnIsNew'
  <2>1. Shown' = Shown /\ votes' = votes
    BY <1>3 DEF Vote, server, screen, Shown
  <2>2. QED
    BY <1>3, <2>1, VoteFacts, OwnJoined DEF Kind
<1>4. ASSUME NEW c \in Calls, Submit(c) PROVE OwnIsNew'
  <2>1. Shown' = Shown /\ votes' = votes
    BY <1>4 DEF Submit, server, screen, Shown
  <2>2. QED
    BY <1>4, <2>1, SubmitFacts, OwnJoined DEF Kind
<1>5. ASSUME NEW c \in Calls, Count(c) \/ Read(c) PROVE OwnIsNew'
  <2>1. Changed(c) /\ call'[c] \in ListCall
    BY <1>5, CountFacts, ReadFacts DEF Advanced, ListCall, PostCall, VoteCall
  <2>2. Shown' = Shown /\ votes' = votes
    BY <1>5 DEF Count, Read, screen, server, Shown
  <2>3. QED
    BY <2>1, <2>2, OwnKept, SameVotes DEF ListCall
<1>6. ASSUME NEW c \in Calls, PostBegins(c) PROVE OwnIsNew'
  <2>1. Changed(c) /\ call'[c] \in PostCall /\ call'[c].id = begun + 1 /\ begun + 1 \notin rows
    BY <1>6, PostBeginsFacts DEF Advanced, ListCall, PostCall, VoteCall, Types
  <2>2. Shown' = Shown /\ votes' = votes
    BY <1>6 DEF PostBegins, screen, Shown
  <2>3. \A e \in Calls : call'[e].kind = "vote" =>
          e \in Pending("vote") /\ call'[e].id = call[e].id /\ call[e].id \in rows
    BY <2>1 DEF Changed, Pending, PostCall, Numbers, Sound
  <2>4. call'[c].id \notin Shown \cup Voted
    BY <2>1 DEF Numbers, Types
  <2>5. ASSUME NEW d \in Calls \ {c}, call'[d].kind = "post"
        PROVE  \/ call'[d].at = "sent" \/ "list" \in call'[d].met
               \/ /\ call'[d].id \notin Shown \cup Voted
                  /\ \A e \in Pending("vote") : call[e].id # call'[d].id
    BY <2>1, <2>5 DEF Changed, OwnIsNew, Pending
  <2>6. QED
    BY <2>1, <2>2, <2>3, <2>4, <2>5, SameVotes DEF OwnIsNew, Pending
<1>7. ASSUME NEW c \in Calls, PostCommits(c) PROVE OwnIsNew'
  <2>1. /\ Changed(c) /\ call'[c] \in PostCall /\ call[c] \in PostCall /\ call[c].at = "begun"
        /\ call'[c].id = call[c].id /\ call'[c].met = call[c].met
    BY <1>7, PostCommitsFacts DEF Advanced, ListCall, PostCall, VoteCall
  <2>2. Shown' = Shown /\ votes' = votes
    BY <1>7 DEF PostCommits, screen, Shown
  <2>3. QED
    BY <2>1, <2>2, OwnKept, SameVotes DEF PostCall
<1>8. ASSUME NEW c \in Calls, VoteReads(c) \/ VoteRunsAgain(c) \/ VoteCommits(c) PROVE OwnIsNew'
  <2>1. Changed(c) /\ call'[c] \in VoteCall /\ call[c] \in VoteCall /\ call'[c].id = call[c].id
    BY <1>8, VoteReadsFacts, VoteRunsAgainFacts, VoteCommitsFacts
       DEF Advanced, ListCall, PostCall, VoteCall
  <2>2. Shown' = Shown
    BY <1>8 DEF VoteReads, VoteRunsAgain, VoteCommits, screen, Shown
  <2>3. c \in Pending("vote")
    BY <2>1 DEF Pending, VoteCall
  <2>4. Voted' \subseteq Voted \cup {call[d].id : d \in Pending("vote")}
    <3>1. CASE VoteReads(c) \/ VoteRunsAgain(c)
      BY <3>1, SameVotes DEF VoteReads, VoteRunsAgain, server
    <3>2. CASE VoteCommits(c)
      BY <2>3, <3>2, VoteCommitsFacts
    <3>3. QED
      BY <1>8, <3>1, <3>2
  <2>5. QED
    BY <2>1, <2>2, <2>4, OwnKept, SameVotes DEF VoteCall
<1>9. ASSUME NEW c \in Calls, \/ VoteConflicts(c) \/ VoteAnswered(c) \/ ShowParents(c)
                              \/ Refused(c) \/ Lost(c)
      PROVE  OwnIsNew'
  <2>1. Changed(c) /\ call'[c] = NoCall
    BY <1>9, VoteConflictsFacts, VoteAnsweredFacts, ShowParentsFacts, RefusedFacts, LostFacts
  <2>2. Shown' = Shown /\ votes' = votes
    BY <1>9, VoteAnsweredFacts DEF VoteConflicts, VoteAnswered, ShowParents, Refused, Lost, server,
       screen, Shown
  <2>3. QED
    BY <2>1, <2>2, OwnKept, SameVotes DEF NoCall
<1>10. ASSUME NEW c \in Calls, ShowList(c) PROVE OwnIsNew'
  <2>1. Changed(c) /\ call[c] \in ListCall /\ call'[c].kind \in {"list", "none"}
    <3>1. Changed(c) /\ call[c] \in ListCall
      BY <1>10, ShowListFacts
    <3>2. CASE Advanced(c, "read", "parents")
      BY <3>1, <3>2 DEF Advanced, ListCall, PostCall, VoteCall
    <3>3. CASE call'[c] = NoCall
      BY <3>1, <3>3 DEF NoCall
    <3>4. QED
      BY <1>10, <3>2, <3>3, ShowListFacts
  <2>2. ASSUME NEW d \in Calls, call'[d].kind = "post" PROVE "list" \in call'[d].met
    <3>1. d # c /\ call'[d] = call[d] /\ call[d] # NoCall
      BY <2>1, <2>2 DEF Changed, NoCall
    <3>2. "list" \in call[d].met
      BY <2>1, <3>1 DEF Meet, ListCall, NoCall
    <3>3. QED
      BY <3>1, <3>2
  <2>3. QED
    BY <2>2 DEF OwnIsNew, Pending
<1>11. ASSUME NEW c \in Calls, PostAnswered(c) PROVE OwnIsNew'
  <2>1. PICK r \in PostCall : r = call[c] /\ r.at = "done" /\ r.id \in rows
    BY <1>11, AnsweredFacts
  <2>2. votes' = votes
    BY <1>11 DEF PostAnswered, server
  <2>3. CASE Appended(c)
    <3>1. PICK b \in Item : b = [id |-> call[c].id, vote |-> "none"] /\ b.id = r.id
      <4>1. PICK k \in Ids : k = r.id /\ k = call[c].id
        BY <2>1, RowsAreIds
      <4>2. [id |-> k, vote |-> "none"] \in Item
        BY DEF Item
      <4>3. QED
        BY <4>1, <4>2
    <3>2. Shown' = Shown \cup {r.id}
      BY <2>3, <3>1, AppendShows DEF Appended
    <3>3. Changed(c) /\ call'[c] = NoCall
      BY <2>3 DEF Appended
    <3>4. ASSUME NEW d \in Calls, call'[d].kind = "post", call'[d].at # "sent"
          PROVE  call'[d].id # r.id
      <4>1. d # c /\ call'[d] = call[d]
        BY <3>3, <3>4 DEF Changed, NoCall
      <4>2. QED
        BY <2>1, <3>4, <4>1 DEF Numbers, Pending, PostCall
    <3>5. ASSUME NEW d \in Calls, call'[d].kind = "post"
          PROVE  \/ call'[d].at = "sent" \/ "list" \in call'[d].met
                 \/ /\ call'[d].id \notin Shown' \cup Voted'
                    /\ \A e \in Calls : call'[e].kind = "vote" => call'[e].id # call'[d].id
      <4>1. d # c /\ call'[d] = call[d]
        BY <3>3, <3>5 DEF Changed, NoCall
      <4>2. \/ call'[d].at = "sent" \/ "list" \in call'[d].met
            \/ /\ call'[d].id \notin Shown \cup Voted
               /\ \A e \in Calls : call[e].kind = "vote" => call[e].id # call'[d].id
        BY <3>5, <4>1 DEF OwnIsNew, Pending
      <4>3. \A e \in Calls : call'[e].kind = "vote" => call'[e] = call[e]
        BY <3>3 DEF Changed, NoCall
      <4>4. QED
        BY <2>2, <3>2, <3>4, <3>5, <4>2, <4>3, SameVotes
    <3>6. QED
      BY <3>5 DEF OwnIsNew, Pending
  <2>4. CASE Changed(c) /\ call'[c] = NoCall /\ Untouched
    <3>1. Shown' = Shown
      BY <2>4 DEF Untouched, Shown
    <3>2. QED
      BY <2>2, <2>4, <3>1, OwnKept, SameVotes DEF NoCall
  <2>5. CASE Fetching(c, NewLastPage(c)) /\ Untouched
    <3>1. Shown' = Shown
      BY <2>5 DEF Untouched, Shown
    <3>2. QED
      BY <2>2, <2>5, <3>1, OwnJoined DEF Fetching, Kind
  <2>6. QED
    BY <1>11, <2>3, <2>4, <2>5, AnsweredFacts
<1>12. QED
  BY <1>1, <1>2, <1>3, <1>4, <1>5, <1>6, <1>7, <1>8, <1>9, <1>10, <1>11 DEF Next, Serve

-----------------------------------------------------------------------------
(* A page is well formed                                                   *)

LEMMA NothingIsWellFormed == WellFormed(<<>>)
<1>1. PageSize \in Nat
  BY BoundsAssumption
<1>2. QED
  BY <1>1 DEF WellFormed

LEMMA InitForm == Init => FormInv
<1> SUFFICES ASSUME Init PROVE FormInv
  OBVIOUS
<1>1. \A d \in Calls : call[d].kind # "post" /\ (call[d].kind = "list" => call[d].items = <<>>)
  BY DEF Init, FetchOf, NoCall
<1>2. QED
  BY <1>1, NothingIsWellFormed DEF FormInv, Pending, Init

LEMMA FormKept ==
  ASSUME Base, FormInv, NEW c \in Calls, Changed(c),
         spliced' \/ WellFormed(replies'),
         Len(replies') = Len(replies) \/ \A d \in Pending("post")' : Crossed(call'[d]),
         call'[c].kind = "list" => WellFormed(call'[c].items),
         call'[c].kind = "post" => /\ call[c].kind = "post" /\ call'[c].len = call[c].len
                                   /\ call'[c].met = call[c].met
  PROVE  FormInv'
<1>1. \A d \in Calls : call'[d].kind = "list" => WellFormed(call'[d].items)
  BY DEF Changed, FormInv, Pending
<1>2. \A d \in Calls : call'[d].kind = "post" => Crossed(call'[d]) \/ call'[d].len = Len(replies')
  BY DEF Changed, FormInv, Pending, Crossed
<1>3. QED
  BY <1>1, <1>2 DEF FormInv, Pending, Crossed, WellFormed

LEMMA FormJoined ==
  ASSUME Base, FormInv, NEW c \in Calls, NEW k \in Kind, Joined(c, k),
         UNCHANGED <<replies, spliced>>,
         k = "list" => call'[c].items = <<>>,
         k = "post" => call'[c].len = Len(replies)
  PROVE  FormInv'
<1>1. ASSUME NEW d \in Calls \ {c}, call'[d].kind \in {"list", "post"}
      PROVE  /\ call'[d].kind = "list" => WellFormed(call'[d].items)
             /\ call'[d].kind = "post" => Crossed(call'[d]) \/ call'[d].len = Len(replies)
  <2>1. call[d] # NoCall /\ Kept(call[d], call'[d]) /\ call'[d].met = call[d].met \cup {k}
    BY <1>1 DEF Joined, NoCall
  <2>2. CASE call'[d].kind = "list"
    <3>1. call'[d].items = call[d].items /\ call[d].kind = "list"
      BY <2>1, <2>2, Kinds DEF Kept, Base
    <3>2. QED
      BY <2>2, <3>1 DEF FormInv, Pending
  <2>3. CASE call'[d].kind = "post"
    <3>1. call'[d].len = call[d].len /\ call[d].kind = "post"
      BY <2>1, <2>3, Kinds DEF Kept, Base
    <3>2. QED
      BY <2>1, <2>3, <3>1 DEF FormInv, Pending, Crossed
  <2>4. QED
    BY <1>1, <2>2, <2>3
<1>2. call'[c].kind = k
  BY DEF Joined
<1>3. \A d \in Calls :
        /\ call'[d].kind = "list" => WellFormed(call'[d].items)
        /\ call'[d].kind = "post" => Crossed(call'[d]) \/ call'[d].len = Len(replies)
  BY <1>1, <1>2, NothingIsWellFormed
<1>4. spliced' \/ WellFormed(replies')
  BY DEF FormInv
<1>5. QED
  BY <1>3, <1>4 DEF FormInv, Pending, Crossed, WellFormed

\* The reply that is appended is new on a page that was not full.
LEMMA AppendedIsWellFormed ==
  ASSUME Types, WellFormed(replies), Len(replies) < PageSize, NEW b \in Item, b.id \notin Shown,
         replies' = Append(replies, b)
  PROVE  WellFormed(replies')
<1>1. PICK n \in Nat : n = Len(replies) /\ DOMAIN replies = 1..n
  BY DEF Types
<1>2. \A i \in 1..n : replies[i].id # b.id
  BY <1>1 DEF Shown
<1>3. /\ Len(replies') = n + 1 /\ DOMAIN replies' = 1..(n + 1)
      /\ (\A i \in 1..n : replies'[i] = replies[i]) /\ replies'[n + 1] = b
  BY <1>1, AppendShows
<1>4. \A i, j \in 1..(n + 1) : replies'[i].id = replies'[j].id => i = j
  <2>1. \A i, j \in 1..n : replies[i].id = replies[j].id => i = j
    BY <1>1 DEF WellFormed
  <2>2. \A i \in 1..(n + 1) : i \in 1..n \/ i = n + 1
    OBVIOUS
  <2>3. QED
    BY <1>2, <1>3, <2>1, <2>2
<1>5. n + 1 <= PageSize
  BY <1>1, BoundsAssumption
<1>6. QED
  BY <1>3, <1>4, <1>5 DEF WellFormed

\* Where the list changes, the posts in flight know of it.
LEMMA FormStep == ASSUME Base, OwnIsNew, FormInv, Next PROVE FormInv'
<1> USE DEF Base
<1>1. CASE OtherBegins \/ Type \/ \E k \in Ids : OtherCommits(k)
  BY <1>1 DEF OtherBegins, Type, OtherCommits, FormInv, screen, history, Pending, Crossed, WellFormed
<1>2. ASSUME NEW c \in Calls, NEW p \in 1..(MaxReplies + 1), GoToPage(c, p) PROVE FormInv'
  <2>1. Fetching(c, p) /\ Joined(c, "list")
    BY <1>2, GoToPageFacts DEF Page, Fetching
  <2>2. QED
    BY <1>2, <2>1, FormJoined DEF GoToPage, Fetching, Kind
<1>3. ASSUME NEW c \in Calls, NEW k \in Votable, NEW want \in Ballot, Vote(c, k, want) PROVE FormInv'
  BY <1>3, VoteFacts, FormJoined DEF Vote, screen, history, Kind
<1>4. ASSUME NEW c \in Calls, Submit(c) PROVE FormInv'
  BY <1>4, SubmitFacts, FormJoined DEF Submit, screen, history, Kind
<1>5. ASSUME NEW c \in Calls, Count(c) PROVE FormInv'
  <2>1. Changed(c) /\ call'[c] \in ListCall /\ WellFormed(call'[c].items)
    BY <1>5, CountFacts DEF Advanced, ListCall, PostCall, VoteCall, FormInv, Pending
  <2>2. UNCHANGED <<replies, spliced>>
    BY <1>5 DEF Count, screen, history
  <2>3. QED
    BY <2>1, <2>2, FormKept DEF ListCall, FormInv
<1>6. ASSUME NEW c \in Calls, Read(c) PROVE FormInv'
  <2>1. Changed(c) /\ call'[c] \in ListCall /\ WellFormed(call'[c].items)
    BY <1>6, ReadFacts, SliceFacts DEF Advanced, ListCall, PostCall, VoteCall
  <2>2. UNCHANGED <<replies, spliced>>
    BY <1>6 DEF Read, screen, history
  <2>3. QED
    BY <2>1, <2>2, FormKept DEF ListCall, FormInv
<1>7. ASSUME NEW c \in Calls, PostBegins(c) \/ PostCommits(c) PROVE FormInv'
  <2>1. /\ Changed(c) /\ call'[c] \in PostCall /\ call[c] \in PostCall
        /\ call'[c].len = call[c].len /\ call'[c].met = call[c].met
    BY <1>7, PostBeginsFacts, PostCommitsFacts DEF Advanced, ListCall, PostCall, VoteCall
  <2>2. UNCHANGED <<replies, spliced>>
    BY <1>7 DEF PostBegins, PostCommits, screen, history
  <2>3. QED
    BY <2>1, <2>2, FormKept DEF PostCall, FormInv
<1>8. ASSUME NEW c \in Calls, VoteReads(c) \/ VoteRunsAgain(c) \/ VoteCommits(c) PROVE FormInv'
  <2>1. Changed(c) /\ call'[c] \in VoteCall
    BY <1>8, VoteReadsFacts, VoteRunsAgainFacts, VoteCommitsFacts
       DEF Advanced, ListCall, PostCall, VoteCall
  <2>2. UNCHANGED <<replies, spliced>>
    BY <1>8 DEF VoteReads, VoteRunsAgain, VoteCommits, screen, history
  <2>3. QED
    BY <2>1, <2>2, FormKept DEF VoteCall, FormInv
<1>9. ASSUME NEW c \in Calls, VoteAnswered(c) PROVE FormInv'
  <2>1. Changed(c) /\ call'[c] = NoCall /\ spliced' = spliced
    BY <1>9, VoteAnsweredFacts DEF VoteAnswered
  <2>2. Len(replies') = Len(replies) /\ (WellFormed(replies) => WellFormed(replies'))
    BY <1>9, VoteAnsweredFacts DEF WellFormed
  <2>3. QED
    BY <2>1, <2>2, FormKept DEF NoCall, FormInv
<1>10. ASSUME NEW c \in Calls, ShowParents(c) \/ VoteConflicts(c) \/ Refused(c) \/ Lost(c)
       PROVE  FormInv'
  <2>1. Changed(c) /\ call'[c] = NoCall
    BY <1>10, ShowParentsFacts, VoteConflictsFacts, RefusedFacts, LostFacts
  <2>2. UNCHANGED <<replies, spliced>>
    BY <1>10 DEF ShowParents, VoteConflicts, Refused, Lost, screen, history
  <2>3. QED
    BY <2>1, <2>2, FormKept DEF NoCall, FormInv
<1>11. ASSUME NEW c \in Calls, ShowList(c) PROVE FormInv'
  <2>1. PICK r \in ListCall : r = call[c] /\ Changed(c) /\ WellFormed(r.items)
    BY <1>11, ShowListFacts DEF FormInv, Pending, ListCall
  <2>2. replies' = r.items
    BY <1>11, <2>1 DEF ShowList
  <2>3. /\ call'[c].kind # "post"
        /\ call'[c].kind = "list" => WellFormed(call'[c].items)
    <3>1. CASE Advanced(c, "read", "parents") /\ call'[c].items = r.items
      BY <2>1, <3>1 DEF Advanced, ListCall, PostCall, VoteCall
    <3>2. CASE call'[c] = NoCall
      BY <3>2 DEF NoCall
    <3>3. QED
      BY <1>11, <2>1, <3>1, <3>2, ShowListFacts
  <2>4. ASSUME NEW d \in Calls, call'[d].kind = "post" PROVE Crossed(call'[d])
    <3>1. d # c /\ call'[d] = call[d] /\ call[d] # NoCall
      BY <2>1, <2>3, <2>4 DEF Changed, NoCall
    <3>2. "list" \in call[d].met
      BY <2>1, <3>1 DEF Meet, ListCall, NoCall
    <3>3. QED
      BY <3>1, <3>2 DEF Crossed
  <2>5. QED
    BY <2>1, <2>2, <2>3, <2>4, FormKept DEF Pending
<1>12. ASSUME NEW c \in Calls, PostAnswered(c) PROVE FormInv'
  <2>1. PICK r \in PostCall : r = call[c] /\ r.at = "done" /\ r.id \in rows
    BY <1>12, AnsweredFacts
  <2>2. CASE Appended(c)
    <3>1. PICK b \in Item : b = [id |-> call[c].id, vote |-> "none"] /\ b.id = r.id
      <4>1. PICK k \in Ids : k = r.id /\ k = call[c].id
        BY <2>1, RowsAreIds
      <4>2. [id |-> k, vote |-> "none"] \in Item
        BY DEF Item
      <4>3. QED
        BY <4>1, <4>2
    <3>2. Changed(c) /\ call'[c] = NoCall /\ replies' = Append(replies, b)
          /\ spliced' = (spliced \/ Crossed(r)) /\ r.len < PageSize
      BY <2>1, <2>2, <3>1 DEF Appended
    <3>3. ASSUME ~spliced, ~Crossed(r) PROVE WellFormed(replies')
      <4>1. r.len = Len(replies) /\ WellFormed(replies)
        BY <2>1, <3>3 DEF FormInv, Pending, PostCall
      <4>2. r.id \notin Shown
        BY <2>1, <3>3 DEF OwnIsNew, Pending, PostCall, Crossed
      <4>3. QED
        BY <3>1, <3>2, <4>1, <4>2, AppendedIsWellFormed
    <3>4. ASSUME NEW d \in Calls, call'[d].kind = "post" PROVE Crossed(call'[d])
      <4>1. d # c /\ call'[d] = call[d] /\ call[d] # NoCall
        BY <3>2, <3>4 DEF Changed, NoCall
      <4>2. "post" \in call[d].met
        BY <2>1, <4>1 DEF Meet, PostCall, NoCall
      <4>3. QED
        BY <4>1, <4>2 DEF Crossed
    <3>5. spliced' \/ WellFormed(replies')
      BY <3>2, <3>3
    <3>6. QED
      BY <3>2, <3>4, <3>5, FormKept DEF Pending, NoCall
  <2>3. CASE Changed(c) /\ call'[c] = NoCall /\ Untouched
    BY <2>3, FormKept DEF NoCall, Untouched, FormInv
  <2>4. CASE Fetching(c, NewLastPage(c)) /\ Untouched
    BY <2>4, FormJoined DEF Fetching, Kind, Untouched
  <2>5. QED
    BY <1>12, <2>2, <2>3, <2>4, AnsweredFacts
<1>13. QED
  BY <1>1, <1>2, <1>3, <1>4, <1>5, <1>6, <1>7, <1>8, <1>9, <1>10, <1>11, <1>12 DEF Next, Serve

-----------------------------------------------------------------------------
(* The arrows                                                              *)

LEMMA InitVote == Init => VoteInv
<1> SUFFICES ASSUME Init PROVE VoteInv
  OBVIOUS
<1>1. \A d \in Calls : call[d].kind # "vote" /\ (call[d].kind = "list" => call[d].at = "sent")
  BY DEF Init, FetchOf, NoCall
<1>2. QED
  BY <1>1 DEF VoteInv, Pending, Init

\* Nothing is said of votes, unless it is forgotten.
LEMMA VoteKept ==
  ASSUME Base, VoteInv, NEW c \in Calls, Changed(c), UNCHANGED <<votes, replies>>,
         smudged => smudged',
         call[c].kind = "vote" /\ call[c].at = "done" => smudged',
         call'[c].kind = "vote" => call'[c].at # "done",
         call'[c].kind = "list" /\ call'[c].at = "read" =>
           "vote" \in call'[c].met \/ Right(call'[c].items)
  PROVE  VoteInv'
<1>1. \A i \in DOMAIN replies : Agrees(replies[i])' <=> Agrees(replies[i])
  BY DEF Agrees
<1>2. \A d \in Calls \ {c} : call'[d] = call[d]
  BY DEF Changed
<1>3. ASSUME ~smudged', NEW i \in DOMAIN replies, ~Agrees(replies[i])
      PROVE  Answering(replies[i].id)'
  <2>1. Answering(replies[i].id)
    BY <1>3 DEF VoteInv
  <2>2. PICK d \in Calls : call[d].kind = "vote" /\ call[d].at = "done" /\ call[d].id = replies[i].id
    BY <2>1 DEF Answering, Pending
  <2>3. d # c
    BY <1>3, <2>2
  <2>4. call'[d].kind = "vote" /\ call'[d].at = "done" /\ call'[d].id = replies'[i].id
    BY <1>2, <2>2, <2>3
  <2>5. QED
    BY <2>4 DEF Answering, Pending
<1>4. \A d \in Pending("vote")' :
        call'[d].at = "done" => "vote" \in call'[d].met \/ Agrees(call[d])'
  BY <1>2 DEF VoteInv, Pending, Agrees
<1>5. \A d \in Pending("list")' :
        call'[d].at = "read" => "vote" \in call'[d].met \/ Right(call[d].items)'
  BY <1>2 DEF VoteInv, Pending, Right, Agrees
<1>6. smudged' \/ \A i \in DOMAIN replies' : Agrees(replies[i])' \/ Answering(replies[i].id)'
  BY <1>1, <1>3
<1>7. QED
  BY <1>4, <1>5, <1>6 DEF VoteInv

LEMMA VoteJoined ==
  ASSUME Base, VoteInv, NEW c \in Calls, NEW k \in Kind, Joined(c, k),
         UNCHANGED <<votes, replies, smudged>>,
         call[c].kind # "vote", call'[c].at = "sent"
  PROVE  VoteInv'
<1>1. \A i \in DOMAIN replies : Agrees(replies[i])' <=> Agrees(replies[i])
  BY DEF Agrees
<1>2. ASSUME NEW d \in Calls, d # c \/ call'[d].kind # k, call'[d].kind \in {"list", "vote"}
      PROVE  /\ d # c /\ call[d] # NoCall /\ Kept(call[d], call'[d])
             /\ call'[d].kind = call[d].kind /\ call'[d].at = call[d].at
             /\ call[d].met \subseteq call'[d].met
  <2>1. d # c
    BY <1>2 DEF Joined
  <2>2. call[d] # NoCall /\ Kept(call[d], call'[d]) /\ call[d].met \subseteq call'[d].met
    BY <1>2, <2>1 DEF Joined, NoCall
  <2>3. call'[d].kind = call[d].kind
    BY <2>2 DEF Kept
  <2>4. call'[d].at = call[d].at
    BY <1>2, <2>2, <2>3, Kinds DEF Kept, Base
  <2>5. QED
    BY <2>1, <2>2, <2>3, <2>4
<1>3. ASSUME ~smudged, NEW i \in DOMAIN replies, ~Agrees(replies[i])
      PROVE  Answering(replies[i].id)'
  <2>1. PICK d \in Calls : call[d].kind = "vote" /\ call[d].at = "done" /\ call[d].id = replies[i].id
    BY <1>3 DEF VoteInv, Answering, Pending
  <2>2. d # c /\ call[d] # NoCall /\ call[d] \in VoteCall
    BY <2>1, Kinds DEF NoCall, Base
  <2>3. call'[d].kind = "vote" /\ call'[d].at = "done" /\ call'[d].id = replies'[i].id
    BY <2>1, <2>2 DEF Joined, Kept
  <2>4. QED
    BY <2>3 DEF Answering, Pending
<1>4. ASSUME NEW d \in Calls, call'[d].kind = "vote", call'[d].at = "done"
      PROVE  "vote" \in call'[d].met \/ Agrees(call[d])'
  <2>1. d # c
    BY <1>4
  <2>2. call[d].kind = "vote" /\ call[d].at = "done" /\ call[d].met \subseteq call'[d].met
        /\ Kept(call[d], call'[d])
    BY <1>2, <1>4, <2>1
  <2>3. call'[d].id = call[d].id /\ call'[d].vote = call[d].vote
    BY <2>2, Kinds DEF Kept, Base
  <2>4. QED
    BY <2>2, <2>3 DEF VoteInv, Pending, Agrees
<1>5. ASSUME NEW d \in Calls, call'[d].kind = "list", call'[d].at = "read"
      PROVE  "vote" \in call'[d].met \/ Right(call[d].items)'
  <2>1. d # c
    BY <1>5
  <2>2. call[d].kind = "list" /\ call[d].at = "read" /\ call[d].met \subseteq call'[d].met
        /\ Kept(call[d], call'[d])
    BY <1>2, <1>5, <2>1
  <2>3. call'[d].items = call[d].items
    BY <2>2, Kinds DEF Kept, Base
  <2>4. QED
    BY <2>2, <2>3 DEF VoteInv, Pending, Right, Agrees
<1>6. smudged' \/ \A i \in DOMAIN replies' : Agrees(replies[i])' \/ Answering(replies[i].id)'
  BY <1>1, <1>3
<1>7. QED
  BY <1>4, <1>5, <1>6 DEF VoteInv, Pending

\* Where a vote commits, the others in flight know of it.
LEMMA VoteCommitsRight == ASSUME Base, VoteInv, NEW c \in Calls, VoteCommits(c) PROVE VoteInv'
<1>1. PICK r \in VoteCall, s \in VoteCall :
        r = call[c] /\ s = call'[c] /\ s.id = r.id /\ s.at = "done" /\ Changed(c)
  BY VoteCommitsFacts DEF Advanced, ListCall, PostCall, VoteCall, Base
<1>2. UNCHANGED <<replies, smudged>>
  BY DEF VoteCommits, screen, history
<1>3. votes' = [votes EXCEPT ![r.id] = s.vote] /\ votes \in [Ids -> Ballot \cup {"none"}]
  BY <1>1, VoteCommitsFacts DEF Base, Types
<1>4. ASSUME NEW d \in Calls \ {c}, call'[d] # NoCall
      PROVE  call'[d] = call[d] /\ "vote" \in call'[d].met
  <2>1. call'[d] = call[d]
    BY <1>1 DEF Changed
  <2>2. QED
    BY <1>1, <1>4, <2>1 DEF Base, Meet, VoteCall, NoCall
<1>5. Agrees(s)'
  BY <1>1, <1>3 DEF Agrees, VoteCall
<1>6. ASSUME ~smudged, NEW i \in DOMAIN replies
      PROVE  Agrees(replies[i])' \/ Answering(replies[i].id)'
  <2>1. CASE replies[i].id = r.id
    <3>1. call'[c].kind = "vote" /\ call'[c].at = "done" /\ call'[c].id = replies'[i].id
      BY <1>1, <1>2, <2>1 DEF VoteCall
    <3>2. QED
      BY <3>1 DEF Answering, Pending
  <2>2. CASE replies[i].id # r.id /\ Agrees(replies[i])
    BY <1>2, <1>3, <2>2 DEF Agrees
  <2>3. CASE replies[i].id # r.id /\ Answering(replies[i].id)
    <3>1. PICK d \in Calls : call[d].kind = "vote" /\ call[d].at = "done" /\ call[d].id = replies[i].id
      BY <2>3 DEF Answering, Pending
    <3>2. d # c /\ call'[d] = call[d]
      BY <1>1, <2>3, <3>1 DEF Changed
    <3>3. QED
      BY <1>2, <3>1, <3>2 DEF Answering, Pending
  <2>4. QED
    BY <1>6, <2>1, <2>2, <2>3 DEF VoteInv
<1>7. \A d \in Pending("vote")' :
        call'[d].at = "done" => "vote" \in call'[d].met \/ Agrees(call[d])'
  <2>1. Agrees(call[c])'
    BY <1>1, <1>5 DEF Agrees
  <2>2. QED
    BY <1>4, <2>1 DEF Pending, NoCall
<1>8. \A d \in Pending("list")' : "vote" \in call'[d].met
  <2>1. call'[c].kind # "list"
    BY <1>1 DEF VoteCall
  <2>2. QED
    BY <1>4, <2>1 DEF Pending, NoCall
<1>9. QED
  BY <1>2, <1>6, <1>7, <1>8 DEF VoteInv

\* An answer that met no other vote and no list says what is stored.
LEMMA VoteAnsweredRight == ASSUME Base, VoteInv, NEW c \in Calls, VoteAnswered(c) PROVE VoteInv'
<1>1. PICK r \in VoteCall : r = call[c] /\ r.at = "done" /\ Changed(c) /\ call'[c] = NoCall
  BY VoteAnsweredFacts DEF Base
<1>2. votes' = votes
  BY DEF VoteAnswered, server
<1>3. smudged' = (smudged \/ r.met \cap {"list", "vote"} # {})
  BY <1>1 DEF VoteAnswered
<1>4. PICK n \in Nat :
        /\ DOMAIN replies = 1..n /\ DOMAIN replies' = 1..n
        /\ \A i \in 1..n :
             /\ replies'[i].id = replies[i].id
             /\ replies'[i].vote = IF replies[i].id = r.id THEN r.vote ELSE replies[i].vote
  BY <1>1, VoteAnsweredFacts DEF Base
<1>5. ASSUME ~smudged', NEW i \in 1..n PROVE Agrees(replies[i])'
  <2>1. ~smudged /\ "vote" \notin r.met
    BY <1>3, <1>5
  <2>2. Agrees(r)
    BY <1>1, <2>1 DEF VoteInv, Pending, VoteCall
  <2>3. CASE replies[i].id = r.id
    BY <1>2, <1>4, <2>2, <2>3 DEF Agrees
  <2>4. CASE replies[i].id # r.id
    <3>1. ~ Answering(replies[i].id)
      <4>1. \A d \in Calls : call[d].kind = "vote" => d = c
        BY <1>1, <2>1 DEF Base, Meet, NoCall, VoteCall
      <4>2. QED
        BY <1>1, <2>4, <4>1 DEF Answering, Pending
    <3>2. Agrees(replies[i])
      BY <1>4, <2>1, <3>1 DEF VoteInv
    <3>3. QED
      BY <1>2, <1>4, <2>4, <3>2 DEF Agrees
  <2>5. QED
    BY <2>3, <2>4
<1>6. \A d \in Calls : call'[d] # NoCall => call'[d] = call[d]
  BY <1>1 DEF Changed
<1>7. \A d \in Pending("vote")' :
        call'[d].at = "done" => "vote" \in call'[d].met \/ Agrees(call[d])'
  BY <1>2, <1>6 DEF VoteInv, Pending, Agrees, NoCall
<1>8. \A d \in Pending("list")' :
        call'[d].at = "read" => "vote" \in call'[d].met \/ Right(call[d].items)'
  BY <1>2, <1>6 DEF VoteInv, Pending, Right, Agrees, NoCall
<1>9. QED
  BY <1>4, <1>5, <1>7, <1>8 DEF VoteInv

LEMMA ShowListRight == ASSUME Base, VoteInv, NEW c \in Calls, ShowList(c) PROVE VoteInv'
<1>1. PICK r \in ListCall : r = call[c] /\ r.at = "read" /\ Changed(c)
  BY ShowListFacts DEF Base
<1>2. replies' = r.items /\ smudged' = ("vote" \in r.met) /\ votes' = votes
  BY <1>1 DEF ShowList, server
<1>3. call'[c].kind \in {"list", "none"} /\ (call'[c].kind = "list" => call'[c].at # "read")
  <2>1. CASE Advanced(c, "read", "parents")
    BY <1>1, <2>1 DEF Advanced, ListCall, PostCall, VoteCall
  <2>2. CASE call'[c] = NoCall
    BY <2>2 DEF NoCall
  <2>3. QED
    BY <2>1, <2>2, ShowListFacts DEF Base
<1>4. ASSUME ~smudged', NEW i \in DOMAIN replies' PROVE Agrees(replies[i])'
  <2>1. Right(r.items)
    BY <1>1, <1>2, <1>4 DEF VoteInv, Pending, ListCall
  <2>2. QED
    BY <1>2, <1>4, <2>1 DEF Right, Agrees
<1>5. \A d \in Calls \ {c} : call'[d] = call[d]
  BY <1>1 DEF Changed
<1>6. \A d \in Pending("vote")' :
        call'[d].at = "done" => "vote" \in call'[d].met \/ Agrees(call[d])'
  BY <1>2, <1>3, <1>5 DEF VoteInv, Pending, Agrees
<1>7. \A d \in Pending("list")' :
        call'[d].at = "read" => "vote" \in call'[d].met \/ Right(call[d].items)'
  BY <1>2, <1>3, <1>5 DEF VoteInv, Pending, Right, Agrees
<1>8. QED
  BY <1>4, <1>6, <1>7 DEF VoteInv

\* The reply that is appended has no vote, unless a list came between.
LEMMA AppendedRight ==
  ASSUME Base, OwnIsNew, VoteInv, NEW c \in Calls, PostAnswered(c), Appended(c)
  PROVE  VoteInv'
<1>1. PICK r \in PostCall : r = call[c] /\ r.at = "done" /\ r.id \in rows
  BY AnsweredFacts DEF Base
<1>2. PICK b \in Item : b = [id |-> call[c].id, vote |-> "none"] /\ b.id = r.id /\ b.vote = "none"
  <2>1. PICK k \in Ids : k = r.id /\ k = call[c].id
    BY <1>1, RowsAreIds DEF Base
  <2>2. [id |-> k, vote |-> "none"] \in Item
    BY DEF Item
  <2>3. QED
    BY <2>1, <2>2
<1>3. Changed(c) /\ call'[c] = NoCall /\ replies' = Append(replies, b)
      /\ smudged' = (smudged \/ "list" \in r.met)
  BY <1>1, <1>2 DEF Appended
<1>4. votes' = votes
  BY DEF PostAnswered, server
<1>5. \A d \in Calls : call'[d] # NoCall => call'[d] = call[d]
  BY <1>3 DEF Changed
<1>6. PICK n \in Nat : /\ DOMAIN replies = 1..n /\ DOMAIN replies' = 1..(n + 1)
                       /\ (\A i \in 1..n : replies'[i] = replies[i]) /\ replies'[n + 1] = b
  <2>1. Types /\ Len(replies) \in Nat
    BY DEF Base, Types
  <2>2. QED
    BY <1>3, <2>1, AppendShows
<1>7. ASSUME ~smudged', NEW i \in 1..(n + 1)
      PROVE  Agrees(replies[i])' \/ Answering(replies[i].id)'
  <2>1. ~smudged /\ "list" \notin r.met
    BY <1>3, <1>7
  <2>2. CASE i = n + 1
    <3>1. b.id \notin Voted
      BY <1>1, <1>2, <2>1 DEF OwnIsNew, Pending, PostCall
    <3>2. replies'[i] = b
      BY <1>6, <2>2
    <3>3. b.vote = votes'[b.id]
      BY <1>2, <1>4, <3>1 DEF Voted, Item
    <3>4. QED
      BY <3>2, <3>3 DEF Agrees
  <2>3. CASE i \in 1..n /\ Agrees(replies[i])
    BY <1>4, <1>6, <2>3 DEF Agrees
  <2>4. CASE i \in 1..n /\ Answering(replies[i].id)
    <3>1. PICK d \in Calls : call[d].kind = "vote" /\ call[d].at = "done" /\ call[d].id = replies[i].id
      BY <2>4 DEF Answering, Pending
    <3>2. call'[d] = call[d] /\ replies'[i] = replies[i]
      BY <1>1, <1>3, <1>6, <2>4, <3>1 DEF Changed, PostCall
    <3>3. QED
      BY <3>1, <3>2 DEF Answering, Pending
  <2>5. i \in 1..n \/ i = n + 1
    OBVIOUS
  <2>6. QED
    BY <1>6, <2>1, <2>2, <2>3, <2>4, <2>5 DEF VoteInv
<1>8. \A d \in Pending("vote")' :
        call'[d].at = "done" => "vote" \in call'[d].met \/ Agrees(call[d])'
  BY <1>4, <1>5 DEF VoteInv, Pending, Agrees, NoCall
<1>9. \A d \in Pending("list")' :
        call'[d].at = "read" => "vote" \in call'[d].met \/ Right(call[d].items)'
  BY <1>4, <1>5 DEF VoteInv, Pending, Right, Agrees, NoCall
<1>10. QED
  BY <1>6, <1>7, <1>8, <1>9 DEF VoteInv

LEMMA VoteStep == ASSUME Base, OwnIsNew, VoteInv, Next PROVE VoteInv'
<1> USE DEF Base
<1>1. CASE OtherBegins \/ Type \/ \E k \in Ids : OtherCommits(k)
  BY <1>1 DEF OtherBegins, Type, OtherCommits, VoteInv, server, screen, history, Pending, Agrees,
              Right, Answering
<1>2. ASSUME NEW c \in Calls, NEW p \in 1..(MaxReplies + 1), GoToPage(c, p) PROVE VoteInv'
  <2>1. Joined(c, "list") /\ call'[c].at = "sent" /\ call[c].kind # "vote"
    BY <1>2, GoToPageFacts DEF Page, Fetching, NoCall
  <2>2. UNCHANGED <<votes, replies, smudged>>
    BY <1>2 DEF GoToPage, server
  <2>3. QED
    BY <2>1, <2>2, VoteJoined DEF Kind
<1>3. ASSUME NEW c \in Calls, NEW k \in Votable, NEW want \in Ballot, Vote(c, k, want) PROVE VoteInv'
  <2>1. UNCHANGED <<votes, replies, smudged>>
    BY <1>3 DEF Vote, server, screen, history
  <2>2. QED
    BY <1>3, <2>1, VoteFacts, VoteJoined DEF Kind, NoCall
<1>4. ASSUME NEW c \in Calls, Submit(c) PROVE VoteInv'
  <2>1. UNCHANGED <<votes, replies, smudged>>
    BY <1>4 DEF Submit, server, screen
  <2>2. QED
    BY <1>4, <2>1, SubmitFacts, VoteJoined DEF Kind, NoCall
<1>5. ASSUME NEW c \in Calls, Count(c) PROVE VoteInv'
  <2>1. Changed(c) /\ call'[c] \in ListCall /\ call[c] \in ListCall /\ call'[c].at # "read"
    BY <1>5, CountFacts DEF Advanced, ListCall, PostCall, VoteCall
  <2>2. UNCHANGED <<votes, replies, smudged>>
    BY <1>5 DEF Count, server, screen, history
  <2>3. QED
    BY <2>1, <2>2, VoteKept DEF ListCall
<1>6. ASSUME NEW c \in Calls, Read(c) PROVE VoteInv'
  <2>1. Changed(c) /\ call'[c] \in ListCall /\ call[c] \in ListCall /\ Right(call'[c].items)
    BY <1>6, ReadFacts, SliceFacts DEF Advanced, ListCall, PostCall, VoteCall
  <2>2. UNCHANGED <<votes, replies, smudged>>
    BY <1>6 DEF Read, server, screen, history
  <2>3. QED
    BY <2>1, <2>2, VoteKept DEF ListCall
<1>7. ASSUME NEW c \in Calls, PostBegins(c) \/ PostCommits(c) PROVE VoteInv'
  <2>1. Changed(c) /\ call'[c] \in PostCall /\ call[c] \in PostCall
    BY <1>7, PostBeginsFacts, PostCommitsFacts DEF Advanced, ListCall, PostCall, VoteCall
  <2>2. UNCHANGED <<votes, replies, smudged>>
    BY <1>7 DEF PostBegins, PostCommits, screen, history
  <2>3. QED
    BY <2>1, <2>2, VoteKept DEF PostCall
<1>8. ASSUME NEW c \in Calls, ShowParents(c) PROVE VoteInv'
  <2>1. Changed(c) /\ call'[c] = NoCall /\ call[c] \in ListCall
    BY <1>8, ShowParentsFacts
  <2>2. UNCHANGED <<votes, replies, smudged>>
    BY <1>8 DEF ShowParents, server, history
  <2>3. QED
    BY <2>1, <2>2, VoteKept DEF NoCall, ListCall
<1>9. ASSUME NEW c \in Calls, Refused(c) \/ Lost(c) PROVE VoteInv'
  <2>1. Changed(c) /\ call'[c] = NoCall
    BY <1>9, RefusedFacts, LostFacts
  <2>2. /\ UNCHANGED <<votes, replies>>
        /\ smudged' = (smudged \/ (call[c].kind = "vote" /\ call[c].at = "done"))
    BY <1>9 DEF Refused, Lost, Failed, server, screen
  <2>3. (smudged => smudged') /\ (call[c].kind = "vote" /\ call[c].at = "done" => smudged')
    BY <2>2
  <2>4. call'[c].kind = "none"
    BY <2>1 DEF NoCall
  <2>5. QED
    BY <2>1, <2>2, <2>3, <2>4, VoteKept
<1>10. ASSUME NEW c \in Calls, PostAnswered(c) PROVE VoteInv'
  <2>1. call[c] \in PostCall /\ votes' = votes
    BY <1>10, AnsweredFacts DEF PostAnswered, server
  <2>2. CASE Appended(c)
    BY <1>10, <2>2, AppendedRight
  <2>3. CASE Changed(c) /\ call'[c] = NoCall /\ Untouched
    BY <2>1, <2>3, VoteKept DEF NoCall, Untouched, PostCall
  <2>4. CASE Fetching(c, NewLastPage(c)) /\ Untouched
    BY <2>1, <2>4, VoteJoined DEF Fetching, Kind, Untouched, PostCall
  <2>5. QED
    BY <1>10, <2>2, <2>3, <2>4, AnsweredFacts
<1>11. ASSUME NEW c \in Calls, VoteReads(c) \/ VoteRunsAgain(c) \/ VoteConflicts(c) PROVE VoteInv'
  <2>1. /\ Changed(c) /\ call[c] \in VoteCall /\ call[c].at # "done"
        /\ \/ call'[c] \in VoteCall /\ call'[c].at # "done"
           \/ call'[c] = NoCall
    BY <1>11, VoteReadsFacts, VoteRunsAgainFacts, VoteConflictsFacts
       DEF Advanced, ListCall, PostCall, VoteCall
  <2>2. UNCHANGED <<votes, replies, smudged>>
    BY <1>11 DEF VoteReads, VoteRunsAgain, VoteConflicts, server, screen, history
  <2>3. QED
    BY <2>1, <2>2, VoteKept DEF NoCall, VoteCall
<1>12. QED
  BY <1>1, <1>2, <1>3, <1>4, <1>5, <1>6, <1>7, <1>8, <1>9, <1>10, <1>11, ShowListRight,
     VoteCommitsRight, VoteAnsweredRight DEF Next, Serve

-----------------------------------------------------------------------------
(* A text is posted once                                                   *)

LEMMA InitText == Init => TextInv
<1> SUFFICES ASSUME Init PROVE TextInv
  OBVIOUS
<1>1. Pending("post") = {}
  BY DEF Init, FetchOf, NoCall, Pending
<1>2. QED
  BY <1>1 DEF TextInv, Init

SamePost(r, s) ==
  /\ s.kind = "post" <=> r.kind = "post"
  /\ s.kind = "post" => s.text = r.text /\ (s.at = "done" <=> r.at = "done")

LEMMA TextKept ==
  ASSUME Base, TextInv, UNCHANGED <<copies, typed, draft>>, spoilt => spoilt',
         \A d \in Calls : SamePost(call[d], call'[d])
  PROVE  TextInv'
<1>1. Pending("post")' = Pending("post")
  BY DEF SamePost, Pending
<1>2. \A d \in Pending("post") : call'[d].text = call[d].text /\ (call'[d].at = "done" <=> call[d].at = "done")
  BY DEF SamePost, Pending
<1>3. QED
  BY <1>1, <1>2 DEF TextInv

LEMMA ChangedPosts ==
  ASSUME NEW c \in Calls, Changed(c), SamePost(call[c], call'[c])
  PROVE  \A d \in Calls : SamePost(call[d], call'[d])
BY DEF Changed, SamePost

LEMMA JoinedPosts ==
  ASSUME Base, NEW c \in Calls, NEW k \in {"list", "vote"}, Joined(c, k), call[c].kind # "post"
  PROVE  \A d \in Calls : SamePost(call[d], call'[d])
<1>1. ASSUME NEW d \in Calls \ {c} PROVE SamePost(call[d], call'[d])
  <2>1. CASE call[d] = NoCall
    BY <2>1 DEF Joined, SamePost, NoCall
  <2>2. CASE call[d] # NoCall
    BY <2>2, Kinds DEF Joined, SamePost, Kept, Base
  <2>3. QED
    BY <2>1, <2>2
<1>2. QED
  BY <1>1 DEF Joined, SamePost

LEMMA TypeText == ASSUME Base, TextInv, Type PROVE TextInv'
<1>1. typed \in Nat /\ typed' = typed + 1 /\ draft' = typed + 1 /\ UNCHANGED <<copies, call>>
      /\ typed' \in 1..MaxTexts
  BY BoundsAssumption DEF Type, Base, Types, server
<1>2. Pending("post")' = Pending("post") /\ spoilt' = (spoilt \/ Pending("post") # {})
  BY <1>1 DEF Pending, Type
<1>3. CASE spoilt \/ Pending("post") # {}
  BY <1>2, <1>3 DEF TextInv
<1>4. CASE ~spoilt /\ Pending("post") = {}
  <2>1. \A t \in 1..MaxTexts : copies[t] <= 1 /\ (t > typed => copies[t] = 0)
    BY <1>4 DEF TextInv
  <2>2. copies[typed + 1] = 0
    BY <1>1, <2>1
  <2>3. QED
    BY <1>1, <1>2, <1>4, <2>1, <2>2 DEF TextInv
<1>5. QED
  BY <1>3, <1>4

LEMMA SubmitText == ASSUME Base, TextInv, NEW c \in Calls, Submit(c) PROVE TextInv'
<1>1. /\ draft # 0 /\ UNCHANGED <<copies, typed, draft>>
      /\ spoilt' = (spoilt \/ Pending("post") # {})
  BY DEF Submit, server
<1>2. /\ Joined(c, "post") /\ call[c] = NoCall
      /\ call'[c].kind = "post" /\ call'[c].at = "sent" /\ call'[c].text = draft
  BY SubmitFacts DEF Base, PostCall
<1>3. CASE spoilt \/ Pending("post") # {}
  BY <1>1, <1>3 DEF TextInv
<1>4. CASE ~spoilt /\ Pending("post") = {}
  <2>1. \A d \in Pending("post")' : d = c
    <3>1. ASSUME NEW d \in Calls \ {c}, call'[d].kind = "post" PROVE FALSE
      <4>1. call[d] # NoCall /\ Kept(call[d], call'[d])
        BY <1>2, <3>1 DEF Joined, NoCall
      <4>2. call[d].kind = "post"
        BY <3>1, <4>1 DEF Kept
      <4>3. QED
        BY <1>4, <4>2 DEF Pending
    <3>2. QED
      BY <3>1 DEF Pending
  <2>2. c \in Pending("post")'
    BY <1>2 DEF Pending
  <2>3. QED
    BY <1>1, <1>2, <1>4, <2>1, <2>2 DEF TextInv
<1>5. QED
  BY <1>3, <1>4

LEMMA CommitText == ASSUME Base, TextInv, NEW c \in Calls, PostCommits(c) PROVE TextInv'
<1>1. PICK r \in PostCall, s \in PostCall :
        r = call[c] /\ s = call'[c] /\ r.at = "begun" /\ s.at = "done" /\ s.text = r.text /\ Changed(c)
  BY PostCommitsFacts DEF Advanced, ListCall, PostCall, VoteCall, Base
<1>2. copies' = [copies EXCEPT ![r.text] = @ + 1] /\ UNCHANGED <<typed, draft, spoilt>>
  BY <1>1 DEF PostCommits, history
<1>3. CASE spoilt
  BY <1>2, <1>3 DEF TextInv
<1>4. CASE ~spoilt
  <2>1. c \in Pending("post") /\ Pending("post")' = Pending("post")
    BY <1>1 DEF Pending, Changed, PostCall
  <2>2. draft \in 1..MaxTexts /\ r.text = draft /\ copies[draft] = 0 /\ draft = typed
        /\ \A d \in Pending("post") : d = c
    BY <1>1, <1>4, <2>1 DEF TextInv, PostCall
  <2>3. copies'[draft] = 1 /\ \A t \in 1..MaxTexts : t # draft => copies'[t] = copies[t]
    BY <1>2, <2>2 DEF Base, Types
  <2>4. \A t \in 1..MaxTexts : copies[t] <= 1 /\ (t > typed => copies[t] = 0)
    BY <1>4 DEF TextInv
  <2>5. \A t \in 1..MaxTexts : copies'[t] <= 1 /\ (t > typed => copies'[t] = 0)
    BY <2>2, <2>3, <2>4
  <2>6. QED
    BY <1>1, <1>2, <1>4, <2>1, <2>2, <2>3, <2>5 DEF TextInv
<1>5. QED
  BY <1>3, <1>4

LEMMA AnsweredText == ASSUME Base, TextInv, NEW c \in Calls, PostAnswered(c) PROVE TextInv'
<1>1. PICK r \in PostCall : r = call[c] /\ r.at = "done"
  BY AnsweredFacts DEF Base
<1>2. UNCHANGED <<copies, typed, spoilt>> /\ draft' = 0
  BY DEF PostAnswered, server
<1>3. \A d \in Calls : call'[d].kind = "post" => d # c /\ d \in Pending("post")
  <2>1. CASE Changed(c) /\ call'[c] = NoCall
    BY <2>1 DEF Changed, Pending, NoCall
  <2>2. CASE Fetching(c, NewLastPage(c))
    <3>1. ASSUME NEW d \in Calls, call'[d].kind = "post" PROVE d # c /\ call[d].kind = "post"
      <4>1. d # c /\ call[d] # NoCall /\ Kept(call[d], call'[d])
        BY <2>2, <3>1 DEF Fetching, Joined, NoCall
      <4>2. QED
        BY <3>1, <4>1 DEF Kept
    <3>2. QED
      BY <3>1 DEF Pending
  <2>3. QED
    BY <2>1, <2>2, AnsweredFacts DEF Base, Appended
<1>4. CASE spoilt
  BY <1>2, <1>4 DEF TextInv
<1>5. CASE ~spoilt
  <2>1. c \in Pending("post")
    BY <1>1 DEF Pending, PostCall
  <2>2. Pending("post")' = {}
    <3>1. \A d \in Pending("post") : d = c
      BY <1>5, <2>1 DEF TextInv
    <3>2. QED
      BY <1>3, <3>1 DEF Pending
  <2>3. draft \in 1..MaxTexts /\ draft = typed /\ copies[draft] = 1
    BY <1>1, <1>5, <2>1 DEF TextInv, PostCall
  <2>4. QED
    BY <1>2, <1>5, <2>2, <2>3 DEF TextInv
<1>6. QED
  BY <1>4, <1>5

LEMMA FailedText == ASSUME Base, TextInv, NEW c \in Calls, Refused(c) \/ Lost(c) PROVE TextInv'
<1>1. Changed(c) /\ call'[c] = NoCall /\ call[c].at # "begun" /\ UNCHANGED <<copies, typed, draft>>
      /\ spoilt' = (spoilt \/ (call[c].kind = "post" /\ call[c].at = "done"))
  <2>1. CASE Refused(c)
    BY <2>1, RefusedFacts DEF Base, Refused, Failed, server
  <2>2. CASE Lost(c)
    BY <2>2, LostFacts DEF Base, Lost, Failed, server, screen
  <2>3. QED
    BY <2>1, <2>2
<1>2. CASE call[c].kind # "post"
  <2>1. SamePost(call[c], call'[c])
    BY <1>1, <1>2 DEF SamePost, NoCall
  <2>2. QED
    BY <1>1, <2>1, ChangedPosts, TextKept
<1>3. CASE call[c].kind = "post" /\ spoilt'
  BY <1>3 DEF TextInv
<1>4. CASE call[c].kind = "post" /\ ~spoilt'
  <2>1. ~spoilt /\ c \in Pending("post") /\ call[c].at # "done"
    BY <1>1, <1>4 DEF Pending
  <2>2. Pending("post")' = {}
    <3>1. \A d \in Pending("post") : d = c
      BY <2>1 DEF TextInv
    <3>2. QED
      BY <1>1, <3>1 DEF Pending, Changed, NoCall
  <2>3. copies[draft] = 0 /\ draft # 0
    BY <2>1, Kinds DEF TextInv, Base, PostCall, Pending
  <2>4. QED
    BY <1>1, <2>1, <2>2, <2>3 DEF TextInv
<1>5. QED
  BY <1>2, <1>3, <1>4

LEMMA TextStep == ASSUME Base, TextInv, Next PROVE TextInv'
<1> USE DEF Base
<1>1. CASE OtherBegins \/ \E k \in Ids : OtherCommits(k)
  BY <1>1 DEF OtherBegins, OtherCommits, TextInv, history, Pending
<1>2. ASSUME NEW c \in Calls, NEW p \in 1..(MaxReplies + 1), GoToPage(c, p) PROVE TextInv'
  <2>1. \A d \in Calls : SamePost(call[d], call'[d])
    BY <1>2, GoToPageFacts, JoinedPosts DEF Page, Fetching, NoCall
  <2>2. UNCHANGED <<copies, typed, draft, spoilt>>
    BY <1>2 DEF GoToPage, server
  <2>3. QED
    BY <2>1, <2>2, TextKept
<1>3. ASSUME NEW c \in Calls, NEW k \in Votable, NEW want \in Ballot, Vote(c, k, want) PROVE TextInv'
  <2>1. \A d \in Calls : SamePost(call[d], call'[d])
    BY <1>3, VoteFacts, JoinedPosts DEF NoCall
  <2>2. UNCHANGED <<copies, typed, draft, spoilt>>
    BY <1>3 DEF Vote, server, history
  <2>3. QED
    BY <2>1, <2>2, TextKept
<1>4. ASSUME NEW c \in Calls, Count(c) \/ Read(c) PROVE TextInv'
  <2>1. Changed(c) /\ call'[c] \in ListCall /\ call[c] \in ListCall
    BY <1>4, CountFacts, ReadFacts DEF Advanced, ListCall, PostCall, VoteCall
  <2>2. SamePost(call[c], call'[c])
    BY <2>1 DEF SamePost, ListCall
  <2>3. UNCHANGED <<copies, typed, draft, spoilt>>
    BY <1>4 DEF Count, Read, server, history
  <2>4. QED
    BY <2>1, <2>2, <2>3, ChangedPosts, TextKept
<1>5. ASSUME NEW c \in Calls, ShowList(c) PROVE TextInv'
  <2>1. Changed(c) /\ call[c] \in ListCall
    BY <1>5, ShowListFacts
  <2>2. SamePost(call[c], call'[c])
    <3>1. CASE Advanced(c, "read", "parents")
      BY <2>1, <3>1 DEF SamePost, Advanced, ListCall, PostCall, VoteCall
    <3>2. CASE call'[c] = NoCall
      BY <2>1, <3>2 DEF SamePost, NoCall, ListCall
    <3>3. QED
      BY <1>5, <3>1, <3>2, ShowListFacts
  <2>3. UNCHANGED <<copies, typed, draft, spoilt>>
    BY <1>5 DEF ShowList, server
  <2>4. QED
    BY <2>1, <2>2, <2>3, ChangedPosts, TextKept
<1>6. ASSUME NEW c \in Calls, ShowParents(c) \/ VoteConflicts(c) \/ VoteAnswered(c) PROVE TextInv'
  <2>1. Changed(c) /\ call'[c] = NoCall /\ call[c] \in ListCall \cup VoteCall
    BY <1>6, ShowParentsFacts, VoteConflictsFacts, VoteAnsweredFacts
  <2>2. SamePost(call[c], call'[c])
    BY <2>1 DEF SamePost, ListCall, VoteCall, NoCall
  <2>3. UNCHANGED <<copies, typed, draft, spoilt>>
    BY <1>6 DEF ShowParents, VoteConflicts, VoteAnswered, server, history
  <2>4. QED
    BY <2>1, <2>2, <2>3, ChangedPosts, TextKept
<1>7. ASSUME NEW c \in Calls, PostBegins(c) PROVE TextInv'
  <2>1. /\ Changed(c) /\ call'[c] \in PostCall /\ call[c] \in PostCall /\ call'[c].text = call[c].text
        /\ call'[c].at # "done" /\ call[c].at # "done"
    BY <1>7, PostBeginsFacts DEF Advanced, ListCall, PostCall, VoteCall
  <2>2. SamePost(call[c], call'[c])
    BY <2>1 DEF SamePost, PostCall
  <2>3. UNCHANGED <<copies, typed, draft, spoilt>>
    BY <1>7 DEF PostBegins, history
  <2>4. QED
    BY <2>1, <2>2, <2>3, ChangedPosts, TextKept
<1>8. ASSUME NEW c \in Calls, VoteReads(c) \/ VoteRunsAgain(c) \/ VoteCommits(c) PROVE TextInv'
  <2>1. Changed(c) /\ call'[c] \in VoteCall /\ call[c] \in VoteCall
    BY <1>8, VoteReadsFacts, VoteRunsAgainFacts, VoteCommitsFacts
       DEF Advanced, ListCall, PostCall, VoteCall
  <2>2. SamePost(call[c], call'[c])
    BY <2>1 DEF SamePost, VoteCall
  <2>3. UNCHANGED <<copies, typed, draft, spoilt>>
    BY <1>8 DEF VoteReads, VoteRunsAgain, VoteCommits, server, history
  <2>4. QED
    BY <2>1, <2>2, <2>3, ChangedPosts, TextKept
<1>9. QED
  BY <1>1, <1>2, <1>3, <1>4, <1>5, <1>6, <1>7, <1>8, TypeText, SubmitText, CommitText, AnsweredText,
     FailedText DEF Next, Serve

-----------------------------------------------------------------------------
(* The own reply is shown                                                  *)

LEMMA InitOwe == Init => OweInv
BY DEF Init, OweInv, NobodyOwed

Due == owed.id # 0 /\ owed.rank = Rank(owed.id)
Found == owed.id \in Shown \/ shownPage = 0 \/ Fetched

LEMMA OweKept ==
  ASSUME Base, OweInv, Next, UNCHANGED owed,
         \A d \in Calls : call'[d].kind = "list" =>
           /\ call[d].kind = "list"
           /\ call'[d].at \in {"sent", "counted"} =>
                call[d].at \in {"sent", "counted"} /\ call'[d].page = call[d].page
           /\ call'[d].at = "read" =>
                \/ call[d].at = "read" /\ call'[d].items = call[d].items
                \/ call[d].at = "counted" /\ call'[d].items = Slice(call[d].page),
         Due => Found'
  PROVE  OweInv'
<1> SUFFICES ASSUME owed.id # 0 PROVE OweInv'
  BY DEF OweInv
<1>1. owed.id \in rows /\ owed.id \in rows' /\ owed.rank \in Nat
      /\ owed.rank <= Rank(owed.id) /\ Rank(owed.id) <= Rank(owed.id)'
      /\ Rank(owed.id) \in Nat /\ Rank(owed.id)' \in Nat
  <2>1. owed.id \in rows /\ owed.rank <= Rank(owed.id) /\ owed.rank \in Nat
    BY DEF OweInv, Base, Types
  <2>2. Rank(owed.id) \in Nat
    BY <2>1, RankInRows DEF Base
  <2>3. QED
    BY <2>1, <2>2, RowsGrow
<1>2. PICK a \in Nat, b \in Nat, r \in Nat : a = Rank(owed.id) /\ b = Rank(owed.id)' /\ r = owed.rank
                                              /\ r <= a /\ a <= b
  BY <1>1
<1>3. ASSUME b = r, NEW d \in Calls, call'[d].kind = "list"
      PROVE  /\ call'[d].at \in {"sent", "counted"} => call'[d].page = PagesOf(owed.rank)
             /\ call'[d].at = "read" => owed.id \in Listed(call'[d].items)
  <2>1. owed.rank = Rank(owed.id) /\ call[d].kind = "list" /\ d \in Pending("list")
    BY <1>2, <1>3 DEF Pending
  <2>2. /\ call[d].at \in {"sent", "counted"} => call[d].page = PagesOf(owed.rank)
        /\ call[d].at = "read" => owed.id \in Listed(call[d].items)
    BY <2>1 DEF OweInv
  <2>3. CASE call[d].at = "counted" /\ call'[d].items = Slice(call[d].page)
    <3>1. call[d].page \in Page
      BY <2>1, Kinds DEF Base, ListCall
    <3>2. Listed(Slice(call[d].page)) = {k \in rows : PagesOf(Rank(k)) = call[d].page}
      BY <3>1, SliceFacts DEF Base
    <3>3. owed.id \in Listed(call'[d].items)
      BY <1>1, <2>1, <2>2, <2>3, <3>2
    <3>4. QED
      BY <1>3, <2>2, <2>3, <3>3
  <2>4. QED
    BY <1>3, <2>2, <2>3
<1>4. b = r => Found'
  BY <1>2 DEF Due
<1>5. \A d \in Pending("list")' : b = r =>
        /\ call'[d].at \in {"sent", "counted"} => call'[d].page = PagesOf(owed.rank)
        /\ call'[d].at = "read" => owed.id \in Listed(call'[d].items)
  BY <1>3 DEF Pending
<1>6. owed.id \in rows' /\ owed.rank <= Rank(owed.id)' /\ (owed.rank = Rank(owed.id)' <=> b = r)
  BY <1>1, <1>2
<1>7. QED
  BY <1>4, <1>5, <1>6 DEF OweInv, Found, Fetched, Rank, PagesOf, Listed

\* Nothing that was found gets lost.
LEMMA StillFound ==
  ASSUME Base, OweInv, Shown' = Shown, shownPage' \in {shownPage, 0}, UNCHANGED owed,
         Fetched => Fetched' \/ shownPage' = 0
  PROVE  Due => Found'
<1>1. Due => Found
  BY DEF Due, Found, Fetched, OweInv
<1>2. owed'.id = owed.id
  OBVIOUS
<1>3. Found' = (owed'.id \in Shown' \/ shownPage' = 0 \/ Fetched')
  BY DEF Found
<1>4. QED
  BY <1>1, <1>2, <1>3 DEF Found

LEMMA OtherFetches ==
  ASSUME NEW c \in Calls, Changed(c), Fetched,
         call[c].kind # "list" \/ call[c].at = "parents" \/ (call'[c].kind = "list" /\ call'[c].at # "parents")
  PROVE  Fetched'
<1>1. PICK d \in Calls : call[d].kind = "list" /\ call[d].at # "parents"
  BY DEF Fetched, Pending
<1>2. call'[d].kind = "list" /\ call'[d].at # "parents"
  BY <1>1 DEF Changed
<1>3. QED
  BY <1>2 DEF Fetched, Pending

\* Where no list is fetched, what was found stays found.
LEMMA OweQuiet ==
  ASSUME Base, OweInv, Next, NEW c \in Calls, Changed(c), UNCHANGED owed,
         call'[c].kind # "list",
         Shown' = Shown,
         \/ shownPage' = 0
         \/ shownPage' = shownPage /\ (call[c].kind # "list" \/ call[c].at = "parents")
  PROVE  OweInv'
<1>1. \A d \in Calls : call'[d].kind = "list" => call'[d] = call[d]
  BY DEF Changed
<1>2. \A d \in Calls : call'[d].kind = "list" =>
        /\ call[d].kind = "list"
        /\ call'[d].at \in {"sent", "counted"} =>
             call[d].at \in {"sent", "counted"} /\ call'[d].page = call[d].page
        /\ call'[d].at = "read" =>
             \/ call[d].at = "read" /\ call'[d].items = call[d].items
             \/ call[d].at = "counted" /\ call'[d].items = Slice(call[d].page)
  BY <1>1
<1>3. Fetched => Fetched' \/ shownPage' = 0
  BY OtherFetches
<1>4. Due => Found'
  BY <1>3, StillFound
<1>5. QED
  BY <1>2, <1>4, OweKept

LEMMA OweJoined ==
  ASSUME Base, OweInv, Next, NEW c \in Calls, NEW k \in {"post", "vote"}, Joined(c, k),
         call[c] = NoCall, UNCHANGED <<owed, shownPage, replies>>
  PROVE  OweInv'
<1>1. ASSUME NEW d \in Calls, call'[d].kind = "list"
      PROVE  /\ call[d].kind = "list" /\ call'[d].at = call[d].at
             /\ call'[d].page = call[d].page /\ call'[d].items = call[d].items
  <2>1. d # c /\ call[d] # NoCall /\ Kept(call[d], call'[d])
    BY <1>1 DEF Joined, NoCall
  <2>2. call[d].kind = "list"
    BY <1>1, <2>1 DEF Kept
  <2>3. QED
    BY <2>1, <2>2, Kinds DEF Kept, Base
<1>2. Fetched => Fetched'
  <2>1. ASSUME Fetched PROVE Fetched'
    <3>1. PICK d \in Calls : call[d].kind = "list" /\ call[d].at # "parents"
      BY <2>1 DEF Fetched, Pending
    <3>2. d # c /\ call[d] # NoCall /\ call[d] \in ListCall
      BY <3>1, Kinds DEF NoCall, Base
    <3>3. call'[d].kind = "list" /\ call'[d].at # "parents"
      BY <3>1, <3>2 DEF Joined, Kept
    <3>4. QED
      BY <3>3 DEF Fetched, Pending
  <2>2. QED
    BY <2>1
<1>3. Shown' = Shown
  BY DEF Shown
<1>4. Due => Found'
  BY <1>2, <1>3, StillFound
<1>5. QED
  BY <1>1, <1>4, OweKept

\* A post that met no other call is the only one in flight when it is answered.
LEMMA AnsweredOwes ==
  ASSUME Base, PageInv, OweInv, Next, NEW c \in Calls, PostAnswered(c)
  PROVE  OweInv'
<1>1. PICK r \in PostCall : r = call[c] /\ r.at = "done" /\ r.id \in rows
                            /\ NewLastPage(c) = PagesOf(r.total + 1)
  BY AnsweredFacts DEF Base
<1>2. rows' = rows
  BY DEF PostAnswered, server
<1>3. owed' = IF r.met = {} /\ r.sound /\ Rank(r.id) = r.total + 1
                THEN [id |-> r.id, rank |-> Rank(r.id)]
                ELSE NobodyOwed
  BY <1>1 DEF PostAnswered
<1>4. CASE ~(r.met = {} /\ r.sound /\ Rank(r.id) = r.total + 1)
  BY <1>3, <1>4 DEF OweInv, NobodyOwed
<1>5. CASE r.met = {} /\ r.sound /\ Rank(r.id) = r.total + 1
  <2>1. \A d \in Calls \ {c} : call[d] = NoCall
    BY <1>1, <1>5 DEF Base, Meet, NoCall, PostCall
  <2>2. PICK n \in Nat : n = Rank(r.id) /\ n = r.total + 1 /\ NewLastPage(c) = PagesOf(n)
    BY <1>1, <1>5, RankInRows DEF Base
  <2>3. owed'.id = r.id /\ owed'.rank = n
    BY <1>3, <1>5, <2>2
  <2>4. Rank(owed.id)' = n
    BY <1>2, <2>2, <2>3 DEF Rank
  <2>5. page = r.page
    BY <1>1, <1>5 DEF PageInv, Pending, Crossed, PostCall
  <2>6. CASE Appended(c)
    <3>1. \A d \in Calls : call'[d].kind # "list"
      BY <2>1, <2>6 DEF Appended, Changed, NoCall
    <3>2. PICK b \in Item : b = [id |-> call[c].id, vote |-> "none"] /\ b.id = r.id
      <4>1. PICK k \in Ids : k = r.id /\ k = call[c].id
        BY <1>1, RowsAreIds DEF Base
      <4>2. [id |-> k, vote |-> "none"] \in Item
        BY DEF Item
      <4>3. QED
        BY <4>1, <4>2
    <3>3. r.id \in Shown'
      BY <2>6, <3>2, AppendShows DEF Appended, Base
    <3>4. QED
      BY <1>1, <1>2, <2>2, <2>3, <2>4, <3>1, <3>3 DEF OweInv, Pending
  <2>7. CASE Fetching(c, NewLastPage(c))
    <3>1. \A d \in Calls : call'[d].kind = "list" => d = c
      BY <2>1, <2>7 DEF Fetching, Joined, NoCall
    <3>2. c \in Pending("list")' /\ call'[c].at = "sent" /\ call'[c].page = PagesOf(n)
      BY <2>2, <2>7 DEF Fetching, Joined, Pending
    <3>3. PagesOf(owed.rank)' = PagesOf(n)
      BY <2>3 DEF PagesOf
    <3>4. QED
      BY <1>1, <1>2, <2>2, <2>3, <2>4, <3>1, <3>2, <3>3 DEF OweInv, Pending
  <2>8. CASE page # call[c].page
    BY <1>1, <2>5, <2>8
  <2>9. QED
    BY <2>6, <2>7, <2>8, AnsweredFacts DEF Base
<1>6. QED
  BY <1>4, <1>5

LEMMA OweStep == ASSUME Base, PageInv, OweInv, Next PROVE OweInv'
<1> USE DEF Base
<1>1. CASE OtherBegins \/ Type \/ \E k \in Ids : OtherCommits(k)
  <2>1. UNCHANGED <<call, owed, shownPage, replies>>
    BY <1>1 DEF OtherBegins, Type, OtherCommits, screen, history
  <2>2. Shown' = Shown /\ (Fetched => Fetched')
    BY <2>1 DEF Shown, Fetched, Pending
  <2>3. Due => Found'
    BY <2>1, <2>2, StillFound
  <2>4. QED
    BY <2>1, <2>3, OweKept
<1>2. ASSUME NEW c \in Calls, NEW p \in 1..(MaxReplies + 1), GoToPage(c, p) PROVE OweInv'
  BY <1>2 DEF GoToPage, OweInv, NobodyOwed
<1>3. ASSUME NEW c \in Calls, NEW k \in Votable, NEW want \in Ballot, Vote(c, k, want) PROVE OweInv'
  BY <1>3, VoteFacts, OweJoined DEF Vote, screen, history
<1>4. ASSUME NEW c \in Calls, Submit(c) PROVE OweInv'
  BY <1>4, SubmitFacts, OweJoined DEF Submit, screen
<1>5. ASSUME NEW c \in Calls, Count(c) \/ Read(c) PROVE OweInv'
  <2>1. /\ Changed(c) /\ call'[c] \in ListCall /\ call[c] \in ListCall
        /\ call'[c].at # "parents" /\ call'[c].page = call[c].page
        /\ \/ call[c].at = "sent" /\ call'[c].at = "counted"
           \/ call[c].at = "counted" /\ call'[c].at = "read" /\ call'[c].items = Slice(call[c].page)
    BY <1>5, CountFacts, ReadFacts DEF Advanced, ListCall, PostCall, VoteCall
  <2>2. UNCHANGED <<owed, shownPage, replies>>
    BY <1>5 DEF Count, Read, screen, history
  <2>3. Shown' = Shown /\ (Fetched => Fetched')
    BY <2>1, <2>2, OtherFetches DEF Shown, ListCall
  <2>4. Due => Found'
    BY <2>2, <2>3, StillFound
  <2>5. \A d \in Calls : call'[d].kind = "list" =>
          /\ call[d].kind = "list"
          /\ call'[d].at \in {"sent", "counted"} =>
               call[d].at \in {"sent", "counted"} /\ call'[d].page = call[d].page
          /\ call'[d].at = "read" =>
               \/ call[d].at = "read" /\ call'[d].items = call[d].items
               \/ call[d].at = "counted" /\ call'[d].items = Slice(call[d].page)
    BY <2>1 DEF Changed, ListCall
  <2>6. QED
    BY <2>2, <2>4, <2>5, OweKept
<1>6. ASSUME NEW c \in Calls, \/ PostBegins(c) \/ PostCommits(c) \/ VoteReads(c)
                              \/ VoteRunsAgain(c) \/ VoteCommits(c)
      PROVE  OweInv'
  <2>1. Changed(c) /\ call'[c].kind # "list" /\ call[c].kind # "list"
    BY <1>6, PostBeginsFacts, PostCommitsFacts, VoteReadsFacts, VoteRunsAgainFacts, VoteCommitsFacts
       DEF Advanced, ListCall, PostCall, VoteCall
  <2>2. Shown' = Shown /\ UNCHANGED <<owed, shownPage>>
    BY <1>6 DEF PostBegins, PostCommits, VoteReads, VoteRunsAgain, VoteCommits, screen, history, Shown
  <2>3. QED
    BY <2>1, <2>2, OweQuiet
<1>7. ASSUME NEW c \in Calls, VoteConflicts(c) \/ VoteAnswered(c) \/ ShowParents(c) PROVE OweInv'
  <2>1. Changed(c) /\ call'[c].kind # "list" /\ (call[c].kind # "list" \/ call[c].at = "parents")
    BY <1>7, VoteConflictsFacts, VoteAnsweredFacts, ShowParentsFacts DEF VoteCall, NoCall
  <2>2. Shown' = Shown /\ UNCHANGED <<owed, shownPage>>
    BY <1>7, VoteAnsweredFacts DEF VoteConflicts, VoteAnswered, ShowParents, screen, history, Shown
  <2>3. QED
    BY <2>1, <2>2, OweQuiet
<1>8. ASSUME NEW c \in Calls, Refused(c) \/ Lost(c) PROVE OweInv'
  <2>1. Changed(c) /\ call'[c].kind # "list"
    BY <1>8, RefusedFacts, LostFacts DEF NoCall
  <2>2. Shown' = Shown /\ UNCHANGED owed
    BY <1>8 DEF Refused, Lost, screen, Shown
  <2>3. \/ shownPage' = 0
        \/ shownPage' = shownPage /\ (call[c].kind # "list" \/ call[c].at = "parents")
    BY <1>8 DEF Refused, Lost, Failed
  <2>4. QED
    BY <2>1, <2>2, <2>3, OweQuiet
<1>9. ASSUME NEW c \in Calls, ShowList(c) PROVE OweInv'
  <2>1. PICK r \in ListCall : r = call[c] /\ r.at = "read" /\ Changed(c)
    BY <1>9, ShowListFacts
  <2>2. replies' = r.items /\ UNCHANGED owed
    BY <1>9, <2>1 DEF ShowList
  <2>3. call'[c].kind = "list" => call'[c].at = "parents" /\ call[c].kind = "list"
    <3>1. CASE Advanced(c, "read", "parents")
      BY <2>1, <3>1 DEF Advanced, ListCall
    <3>2. CASE call'[c] = NoCall
      BY <3>2 DEF NoCall
    <3>3. QED
      BY <1>9, <3>1, <3>2, ShowListFacts
  <2>4. \A d \in Calls : call'[d].kind = "list" =>
          /\ call[d].kind = "list"
          /\ call'[d].at \in {"sent", "counted"} =>
               call[d].at \in {"sent", "counted"} /\ call'[d].page = call[d].page
          /\ call'[d].at = "read" =>
               \/ call[d].at = "read" /\ call'[d].items = call[d].items
               \/ call[d].at = "counted" /\ call'[d].items = Slice(call[d].page)
    BY <2>1, <2>3 DEF Changed
  <2>5. Due => owed.id \in Listed(r.items)
    BY <2>1 DEF Due, OweInv, Pending, ListCall
  <2>6. Shown' = Listed(r.items)
    BY <2>2 DEF Shown, Listed
  <2>7. Due => Found'
    BY <2>2, <2>5, <2>6 DEF Found
  <2>8. QED
    BY <2>2, <2>4, <2>7, OweKept
<1>10. QED
  BY <1>1, <1>2, <1>3, <1>4, <1>5, <1>6, <1>7, <1>8, <1>9, AnsweredOwes DEF Next, Serve

-----------------------------------------------------------------------------
(* The inductive invariant, and what it says                               *)

LEMMA StepOfIInv == ASSUME IInv, [Next]_vars PROVE IInv'
<1>1. CASE Next
  BY <1>1, BaseStep, PageStep, OwnStep, FormStep, VoteStep, OweStep, TextStep DEF IInv
<1>2. CASE UNCHANGED vars
  <2> USE <1>2 DEF vars, server, screen, history
  <2>1. Base'
    <3>1. Types'
      BY SameVotes DEF IInv, Base, Types
    <3>2. \A c \in Calls : Sound(call[c])' <=> Sound(call[c])
      BY DEF Sound
    <3>3. Numbers'
      BY <3>2 DEF IInv, Base, Numbers, Shown, Pending, ParentIsThere
    <3>4. Meet'
      BY DEF IInv, Base, Meet
    <3>5. QED
      BY <3>1, <3>3, <3>4 DEF Base
  <2>2. PageInv'
    BY DEF IInv, PageInv, Pending, Crossed
  <2>3. OwnIsNew'
    BY SameVotes DEF IInv, OwnIsNew, Pending, Shown
  <2>4. FormInv'
    BY DEF IInv, FormInv, Pending, Crossed, WellFormed
  <2>5. VoteInv'
    <3>1. \A k : Answering(k)' <=> Answering(k)
      BY DEF Answering, Pending
    <3>2. QED
      BY <3>1 DEF IInv, VoteInv, Pending, Agrees, Right
  <2>6. OweInv'
    BY DEF IInv, OweInv, Pending, Shown, Rank, Listed, PagesOf
  <2>7. TextInv'
    BY DEF IInv, TextInv, Pending
  <2>8. QED
    BY <2>1, <2>2, <2>3, <2>4, <2>5, <2>6, <2>7 DEF IInv
<1>3. QED
  BY <1>1, <1>2

LEMMA Inductive == Spec => []IInv
<1>1. Init => IInv
  BY InitTypes, InitNumbers, InitPage, InitOwn, InitForm, InitVote, InitOwe, InitText DEF IInv, Base
<1>2. IInv /\ [Next]_vars => IInv'
  BY StepOfIInv
<1>3. QED
  BY <1>1, <1>2, PTL DEF Spec

\* The variables keep their types: page numbers stay within the pages there can
\* be, and what is voted on or remembered is a reply that is stored.
THEOREM TypeCorrect == Spec => []TypeOK
<1>1. IInv => TypeOK
  <2> SUFFICES ASSUME IInv PROVE TypeOK
    OBVIOUS
  <2>1. Types /\ Numbers
    BY DEF IInv, Base
  <2>2. PICK n \in Nat : n = Cardinality(rows) /\ n <= MaxReplies /\ MaxReplies \in Nat
    BY <2>1, RowsAreFinite, BoundsAssumption
  <2>3. ASSUME NEW t \in 1..MaxTexts PROVE copies[t] \in 0..MaxReplies
    BY <2>1, <2>2 DEF Types, Numbers
  <2>4. copies \in [1..MaxTexts -> 0..MaxReplies]
    BY <2>1, <2>3 DEF Types
  <2>5. total \in 0..(MaxReplies + 1)
    BY <2>1, <2>2 DEF Types, Numbers
  <2>6. ASSUME NEW c \in Calls
        PROVE  /\ \/ call[c] = NoCall
                  \/ call[c].kind = "list" /\ call[c].at \in {"sent", "counted", "read", "parents"}
                  \/ call[c].kind = "post" /\ call[c].at \in {"sent", "begun", "done"}
                  \/ /\ call[c].kind = "vote" /\ call[c].at \in {"sent", "seen", "done"}
                     /\ call[c].id \in rows
               /\ call[c].met \subseteq Kind
    <3>1. Sound(call[c]) /\ call[c] \in CallRecord /\ call[c].met \subseteq Kind
      BY <2>1, Kinds DEF Numbers
    <3>2. QED
      BY <3>1 DEF Sound, CallRecord, ListCall, PostCall, VoteCall
  <2>7. page \in 1..(MaxReplies + 1) /\ pages \in 1..(MaxReplies + 1)
        /\ shownPage \in 0..(MaxReplies + 1)
    BY <2>1, <2>2 DEF Types, Page
  <2>8. QED
    BY <2>1, <2>4, <2>5, <2>6, <2>7 DEF Types, TypeOK
<1>2. QED
  BY <1>1, Inductive, PTL

\* Once nothing is being fetched, the list under a page number is the list of
\* that page, whatever was asked for, posted, lost or answered late before it,
\* unless the fetch crossed another fetch or a post, or the last one failed.
THEOREM PageShown == Spec => []PageShownIsPageAsked
<1>1. IInv => PageShownIsPageAsked
  BY DEF IInv, PageInv, PageShownIsPageAsked
<1>2. QED
  BY <1>1, Inductive, PTL

\* A page holds no reply twice and no more replies than a page, whoever posts and
\* commits between the count and the list, until a reply is appended to a list
\* that is moving.
THEOREM PageWellFormed == Spec => []PageIsWellFormed
<1>1. IInv => PageIsWellFormed
  <2> SUFFICES ASSUME IInv, ~spliced PROVE Len(replies) <= PageSize /\ Cardinality(Shown) = Len(replies)
    BY DEF PageIsWellFormed
  <2>1. PICK n \in Nat : n = Len(replies) /\ DOMAIN replies = 1..n
    BY DEF IInv, Base, Types
  <2>2. n <= PageSize /\ \A i, j \in 1..n : replies[i].id = replies[j].id => i = j
    BY <2>1 DEF IInv, FormInv, WellFormed
  <2> DEFINE f == [i \in 1..n |-> replies[i].id]
  <2>3. f \in Surjection(1..n, Shown)
    BY <2>1 DEF Surjection, Shown
  <2>4. f \in Injection(1..n, Shown)
    BY <2>1, <2>2 DEF Injection, IsInjective, Shown
  <2>5. IsFiniteSet(1..n) /\ Cardinality(1..n) = n
    BY FS_Interval
  <2> HIDE DEF f
  <2>6. Cardinality(Shown) = n
    BY <2>3, <2>4, <2>5, FS_Surjection
  <2>7. QED
    BY <2>1, <2>2, <2>6
<1>2. QED
  BY <1>1, Inductive, PTL

\* Whoever posted sees the reply when all is answered: appended, or on the page
\* that was fetched for it, if the count of the client was right, nothing came
\* between and the fetch, where one was made, did not fail.
THEOREM OwnReplyShown == Spec => []OwnReplyIsShown
<1>1. IInv => OwnReplyIsShown
  <2> SUFFICES ASSUME IInv, Settled, shownPage # 0, owed.id # 0, Rank(owed.id) = owed.rank
      PROVE  owed.id \in Shown
    BY DEF OwnReplyIsShown
  <2>1. \A c \in Calls : call[c].kind # "list"
    BY DEF Settled, NoCall
  <2>2. QED
    BY <2>1 DEF IInv, OweInv, Pending
<1>2. QED
  BY <1>1, Inductive, PTL

\* The arrows show the votes that are stored once every vote is answered, cast,
\* flipped or taken back, until a vote crosses another vote or a fetch, a reply is
\* appended whose post crossed a fetch, or the answer to a vote is lost or refused
\* after it was stored.
THEOREM ArrowsRight == Spec => []ArrowsShowStoredVotes
<1>1. IInv => ArrowsShowStoredVotes
  <2> SUFFICES ASSUME IInv, ~smudged, Pending("vote") = {}, NEW i \in DOMAIN replies
      PROVE  replies[i].vote = votes[replies[i].id]
    BY DEF ArrowsShowStoredVotes
  <2>1. Agrees(replies[i])
    BY DEF IInv, VoteInv, Answering
  <2>2. QED
    BY <2>1 DEF Agrees
<1>2. QED
  BY <1>1, Inductive, PTL

\* A text is posted once, or stays in the box to be posted, through refusals and
\* lost calls, unless the box was used while a post was in flight or the answer
\* to a post got lost.
THEOREM TextPostedOnce == Spec => []TextIsPostedOnce
<1>1. IInv => TextIsPostedOnce
  <2> SUFFICES ASSUME IInv, ~spoilt
      PROVE  /\ \A t \in 1..typed : copies[t] <= 1
             /\ typed > 0 => copies[typed] = 1 \/ draft = typed
             /\ draft # 0 /\ copies[draft] = 1 => Pending("post") # {}
    BY DEF TextIsPostedOnce
  <2>1. 1..typed \subseteq 1..MaxTexts /\ draft \in {0, typed} /\ typed \in Nat
    BY BoundsAssumption DEF IInv, Base, Types, TextInv
  <2>2. \A t \in 1..typed : copies[t] <= 1
    BY <2>1 DEF IInv, TextInv
  <2>3. typed > 0 => copies[typed] = 1 \/ draft = typed
    BY <2>1 DEF IInv, TextInv
  <2>4. draft # 0 /\ copies[draft] = 1 => Pending("post") # {}
    BY DEF IInv, TextInv
  <2>5. QED
    BY <2>2, <2>3, <2>4
<1>2. QED
  BY <1>1, Inductive, PTL

=============================================================================
