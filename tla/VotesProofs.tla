---------------------------- MODULE VotesProofs -----------------------------
(***************************************************************************)
(* The vote counters, for any users, items and requests in flight.         *)
(***************************************************************************)
EXTENDS Votes, FiniteSetTheorems, TLAPS

\* A request that is under way names a user, an item and a ballot.
RequestsInv ==
  \A q \in Requests :
    request[q].want # "none" => request[q].user \in Users /\ request[q].item \in Items

Inv == TypeOK /\ RequestsInv

LEMMA InitInv == Init => Inv
<1>1. Init => overlapped \in BOOLEAN
  BY DEF Init
<1>2. Init => RequestsInv /\ request \in [Requests -> Request]
  BY DEF Init, RequestsInv, Request, Idle, Ballot
<1>3. QED
  BY <1>1, <1>2, BoundsAssumption DEF Init, Inv, TypeOK, Ballot

LEMMA IdleType == Idle \in Request /\ Idle.want = "none"
BY DEF Idle, Request

LEMMA OneType == ASSUME NEW b, NEW x PROVE One(b, x) \in {0, 1}
BY DEF One

\* What a write does to the state, whoever makes it.
LEMMA WriteInv ==
  ASSUME Inv, NEW q \in Requests, request[q].want # "none",
         NEW row \in Ballot \cup {"none"}, NEW up \in Int, NEW down \in Int,
         Write(q, row, up, down)
  PROVE  Inv'
<1> DEFINE i == request[q].item
           u == request[q].user
<1>0. i \in Items /\ u \in Users
  BY DEF Inv, RequestsInv
<1>1. vote' \in [Items -> [Users -> Ballot \cup {"none"}]]
  <2>1. [vote[i] EXCEPT ![u] = row] \in [Users -> Ballot \cup {"none"}]
    BY <1>0 DEF Inv, TypeOK
  <2>2. vote' = [vote EXCEPT ![i] = [vote[i] EXCEPT ![u] = row]]
    BY DEF Write
  <2>3. QED
    BY <2>1, <2>2 DEF Inv, TypeOK
<1>2. upvotes' \in [Items -> Int] /\ downvotes' \in [Items -> Int]
  <2>1. upvotes[i] + up \in Int /\ downvotes[i] + down \in Int
    BY <1>0 DEF Inv, TypeOK
  <2>2. /\ upvotes' = [upvotes EXCEPT ![i] = upvotes[i] + up]
        /\ downvotes' = [downvotes EXCEPT ![i] = downvotes[i] + down]
    BY DEF Write
  <2>3. QED
    BY <2>1, <2>2 DEF Inv, TypeOK
<1>3. request' \in [Requests -> Request] /\ RequestsInv'
  BY IdleType DEF Inv, TypeOK, RequestsInv, Write
<1>4. QED
  BY <1>1, <1>2, <1>3 DEF Inv, TypeOK, Write

LEMMA NoChangeInv == ASSUME Inv, NEW q \in Requests, NoChange(q) PROVE Inv'
<1>1. request' \in [Requests -> Request] /\ RequestsInv'
  BY IdleType DEF Inv, TypeOK, RequestsInv, NoChange
<1>2. QED
  BY <1>1 DEF Inv, TypeOK, NoChange

LEMMA ReadVoteInv ==
  ASSUME Inv, NEW q \in Requests, NEW u \in Users, NEW i \in Items, NEW want \in Ballot,
         ReadVote(q, u, i, want)
  PROVE  Inv'
<1> DEFINE r == [user |-> u, item |-> i, want |-> want, seen |-> vote[i][u]]
<1>1. r \in Request
  BY DEF Inv, TypeOK, Request
<1>2. request' \in [Requests -> Request]
  BY <1>1 DEF Inv, TypeOK, ReadVote
<1>3. RequestsInv'
  BY DEF Inv, TypeOK, RequestsInv, ReadVote
<1>4. started' \in 0..MaxVotes
  BY BoundsAssumption DEF Inv, TypeOK, ReadVote
<1>5. QED
  BY <1>2, <1>3, <1>4 DEF Inv, TypeOK, ReadVote

-----------------------------------------------------------------------------

(* One voter's row changes, and the number of rows with it. *)

Holders(f, B) == {u \in Users : f[u] \in B}
In(x, B) == IF x \in B THEN 1 ELSE 0

LEMMA HoldersFinite ==
  ASSUME NEW f, NEW B
  PROVE  IsFiniteSet(Holders(f, B)) /\ Cardinality(Holders(f, B)) \in Nat
BY VotersAssumption, FS_Subset, FS_CardinalityType DEF Holders

\* How one write moves the number of rows with a ballot in B.
LEMMA HoldersAfterWrite ==
  ASSUME NEW f \in [Users -> Ballot \cup {"none"}], NEW u \in Users, NEW row, NEW B
  PROVE  Cardinality(Holders([f EXCEPT ![u] = row], B))
           = Cardinality(Holders(f, B)) + In(row, B) - In(f[u], B)
<1> DEFINE g == [f EXCEPT ![u] = row]
           V == Holders(f, B)
           W == Holders(g, B)
<1>1. g[u] = row /\ \A v \in Users \ {u} : g[v] = f[v]
  OBVIOUS
<1>2. IsFiniteSet(V) /\ Cardinality(V) \in Nat
  BY HoldersFinite
<1> HIDE DEF g
<1>3. CASE row \in B /\ f[u] \notin B
  <2>1. W = V \cup {u} /\ u \notin V
    BY <1>1, <1>3 DEF Holders
  <2>2. Cardinality(W) = Cardinality(V) + 1
    BY <1>2, <2>1, FS_AddElement
  <2>3. QED
    BY <1>2, <1>3, <2>2 DEF In, g
<1>4. CASE row \notin B /\ f[u] \in B
  <2>1. W = V \ {u} /\ u \in V
    BY <1>1, <1>4 DEF Holders
  <2>2. Cardinality(W) = Cardinality(V) - 1
    BY <1>2, <2>1, FS_RemoveElement
  <2>3. QED
    BY <1>2, <1>4, <2>2 DEF In, g
<1>5. CASE (row \in B) = (f[u] \in B)
  <2>1. W = V
    BY <1>1, <1>5 DEF Holders
  <2>2. QED
    BY <1>2, <1>5, <2>1 DEF In, g
<1>6. QED
  BY <1>3, <1>4, <1>5

\* What a write does to one item, and that it leaves the others alone.
LEMMA WriteEffect ==
  ASSUME Inv, NEW q \in Requests, NEW i \in Items, NEW u \in Users,
         i = request[q].item, u = request[q].user,
         NEW row, NEW up \in Int, NEW down \in Int, Write(q, row, up, down)
  PROVE  /\ vote'[i] = [vote[i] EXCEPT ![u] = row]
         /\ upvotes'[i] = upvotes[i] + up /\ downvotes'[i] = downvotes[i] + down
         /\ \A j \in Items \ {i} :
              vote'[j] = vote[j] /\ upvotes'[j] = upvotes[j] /\ downvotes'[j] = downvotes[j]
         /\ Row(q) = vote[i][u]
         /\ vote[i] \in [Users -> Ballot \cup {"none"}]
         /\ upvotes[i] \in Int /\ downvotes[i] \in Int
BY DEF Inv, TypeOK, Write, Row

-----------------------------------------------------------------------------

(* The three writes, reduced to Write and NoChange. *)

LEMMA InsertCases ==
  ASSUME Inv, NEW q \in Requests, InsertVote(q)
  PROVE  \/ NoChange(q)
         \/ /\ Row(q) = "none"
            /\ Write(q, request[q].want, One(request[q].want, "up"), One(request[q].want, "down"))
BY DEF InsertVote

LEMMA DeleteCases ==
  ASSUME Inv, NEW q \in Requests, DeleteVote(q)
  PROVE  \/ NoChange(q)
         \/ /\ Row(q) # "none"
            /\ Write(q, "none", - One(Row(q), "up"), - One(Row(q), "down"))
BY DEF DeleteVote

LEMMA FlipCases ==
  ASSUME Inv, NEW q \in Requests, FlipVote(q)
  PROVE  \/ NoChange(q)
         \/ /\ Row(q) # "none"
            /\ Write(q, request[q].want, One(request[q].want, "up") - One(request[q].want, "down"),
                     - (One(request[q].want, "up") - One(request[q].want, "down")))
BY DEF FlipVote

LEMMA RowType ==
  ASSUME Inv, NEW q \in Requests, request[q].want # "none"
  PROVE  /\ request[q].item \in Items /\ request[q].user \in Users
         /\ request[q].want \in Ballot
         /\ Row(q) \in Ballot \cup {"none"}
<1>1. request[q] \in Request
  BY DEF Inv, TypeOK
<1>2. request[q].want \in Ballot
  BY <1>1 DEF Request
<1>3. request[q].item \in Items /\ request[q].user \in Users
  BY DEF Inv, RequestsInv
<1>4. QED
  BY <1>2, <1>3 DEF Inv, TypeOK, Row

LEMMA NextInv == Inv /\ [Next]_vars => Inv'
<1> SUFFICES ASSUME Inv, [Next]_vars PROVE Inv'
  OBVIOUS
<1>1. ASSUME NEW q \in Requests, NEW u \in Users, NEW i \in Items, NEW want \in Ballot,
             ReadVote(q, u, i, want)
      PROVE  Inv'
  BY <1>1, ReadVoteInv
<1>2. ASSUME NEW q \in Requests, InsertVote(q) PROVE Inv'
  <2>1. request[q].want # "none"
    BY <1>2 DEF InsertVote
  <2>2. One(request[q].want, "up") \in Int /\ One(request[q].want, "down") \in Int
    BY OneType
  <2>3. QED
    BY <1>2, <2>1, <2>2, InsertCases, NoChangeInv, WriteInv, RowType
<1>3. ASSUME NEW q \in Requests, DeleteVote(q) PROVE Inv'
  <2>1. request[q].want # "none"
    BY <1>3 DEF DeleteVote
  <2>2. - One(Row(q), "up") \in Int /\ - One(Row(q), "down") \in Int
    BY OneType
  <2>3. QED
    BY <1>3, <2>1, <2>2, DeleteCases, NoChangeInv, WriteInv
<1>4. ASSUME NEW q \in Requests, FlipVote(q) PROVE Inv'
  <2>1. request[q].want # "none"
    BY <1>4 DEF FlipVote
  <2> DEFINE n == One(request[q].want, "up") - One(request[q].want, "down")
  <2>2. n \in Int /\ - n \in Int
    BY OneType
  <2> HIDE DEF n
  <2>3. NoChange(q) \/ Write(q, request[q].want, n, - n)
    BY <1>4, FlipCases DEF n
  <2>4. QED
    BY <2>1, <2>2, <2>3, NoChangeInv, WriteInv, RowType
<1>5. CASE UNCHANGED vars
  BY <1>5 DEF vars, Inv, TypeOK, RequestsInv
<1>6. QED
  BY <1>1, <1>2, <1>3, <1>4, <1>5 DEF Next

\* Types hold, and a request under way names a user and an item.
THEOREM TypeCorrect == Spec => []TypeOK
<1>1. Inv => TypeOK
  BY DEF Inv
<1>2. QED
  BY <1>1, InitInv, NextInv, PTL DEF Spec

-----------------------------------------------------------------------------

(* The sum of the counters, under every interleaving. *)

LEMMA TotalRestated ==
  /\ TotalMatchesRows
       <=> \A i \in Items : upvotes[i] + downvotes[i] = Cardinality(Holders(vote[i], Ballot))
  /\ TotalMatchesRows'
       <=> \A i \in Items : upvotes'[i] + downvotes'[i] = Cardinality(Holders(vote'[i], Ballot))
BY DEF TotalMatchesRows, Voters, Holders, Ballot

\* A write keeps the sum exact if it adds what the row gains.
LEMMA WriteTotal ==
  ASSUME Inv, TotalMatchesRows, NEW q \in Requests, request[q].want # "none",
         NEW row \in Ballot \cup {"none"}, NEW up \in Int, NEW down \in Int,
         Write(q, row, up, down),
         up + down = In(row, Ballot) - In(Row(q), Ballot)
  PROVE  TotalMatchesRows'
<1>1. PICK i \in Items, u \in Users : i = request[q].item /\ u = request[q].user
  BY RowType
<1> DEFINE H == Cardinality(Holders(vote[i], Ballot))
<1>2. /\ vote'[i] = [vote[i] EXCEPT ![u] = row]
      /\ upvotes'[i] = upvotes[i] + up /\ downvotes'[i] = downvotes[i] + down
      /\ \A j \in Items \ {i} :
           vote'[j] = vote[j] /\ upvotes'[j] = upvotes[j] /\ downvotes'[j] = downvotes[j]
      /\ Row(q) = vote[i][u]
      /\ vote[i] \in [Users -> Ballot \cup {"none"}]
      /\ upvotes[i] \in Int /\ downvotes[i] \in Int
  BY <1>1, WriteEffect
<1>3. H \in Nat
  BY HoldersFinite
<1>4. Cardinality(Holders(vote'[i], Ballot)) = H + In(row, Ballot) - In(vote[i][u], Ballot)
  BY <1>2, HoldersAfterWrite
<1>5. In(row, Ballot) \in Int /\ In(vote[i][u], Ballot) \in Int
  BY DEF In
<1>6. upvotes[i] + downvotes[i] = H
  BY TotalRestated
<1> HIDE DEF H
<1>7. upvotes'[i] + downvotes'[i] = Cardinality(Holders(vote'[i], Ballot))
  BY <1>2, <1>3, <1>4, <1>5, <1>6
<1>8. \A j \in Items \ {i} :
        upvotes'[j] + downvotes'[j] = Cardinality(Holders(vote'[j], Ballot))
  BY <1>2, TotalRestated
<1>9. QED
  BY <1>7, <1>8, TotalRestated

LEMMA OneSum ==
  /\ \A b \in Ballot : One(b, "up") + One(b, "down") = 1
  /\ \A b \in Ballot : - One(b, "up") + - One(b, "down") = -1
BY DEF Ballot, One

LEMMA TotalNext == Inv /\ TotalMatchesRows /\ [Next]_vars => TotalMatchesRows'
<1> SUFFICES ASSUME Inv, TotalMatchesRows, [Next]_vars PROVE TotalMatchesRows'
  OBVIOUS
<1>1. ASSUME UNCHANGED <<vote, upvotes, downvotes>> PROVE TotalMatchesRows'
  BY <1>1 DEF TotalMatchesRows, Voters
<1>2. ASSUME NEW q \in Requests, NoChange(q) PROVE TotalMatchesRows'
  BY <1>1, <1>2 DEF NoChange
<1>3. In("none", Ballot) = 0 /\ \A b \in Ballot : In(b, Ballot) = 1
  BY DEF Ballot, In
<1>4. ASSUME NEW q \in Requests, InsertVote(q) PROVE TotalMatchesRows'
  <2>1. request[q].want # "none"
    BY <1>4 DEF InsertVote
  <2> DEFINE a == One(request[q].want, "up")
             b == One(request[q].want, "down")
  <2>2. a \in Int /\ b \in Int /\ a + b = 1
    BY <2>1, OneType, OneSum, RowType
  <2> HIDE DEF a, b
  <2>3. NoChange(q) \/ (Row(q) = "none" /\ Write(q, request[q].want, a, b))
    BY <1>4, InsertCases DEF a, b
  <2>4. ASSUME Row(q) = "none", Write(q, request[q].want, a, b) PROVE TotalMatchesRows'
    <3>1. request[q].want \in Ballot
      BY <2>1, RowType
    <3>2. a + b = In(request[q].want, Ballot) - In(Row(q), Ballot)
      BY <1>3, <2>2, <2>4, <3>1
    <3>3. QED
      BY <2>1, <2>2, <2>4, <3>1, <3>2, WriteTotal
  <2>5. QED
    BY <1>2, <2>3, <2>4
<1>5. ASSUME NEW q \in Requests, DeleteVote(q) PROVE TotalMatchesRows'
  <2>1. request[q].want # "none"
    BY <1>5 DEF DeleteVote
  <2> DEFINE a == - One(Row(q), "up")
             b == - One(Row(q), "down")
  <2>2. NoChange(q) \/ (Row(q) # "none" /\ Write(q, "none", a, b))
    BY <1>5, DeleteCases
  <2>3. Row(q) # "none" => Row(q) \in Ballot /\ a \in Int /\ b \in Int /\ a + b = -1
    BY <2>1, OneType, OneSum, RowType
  <2> HIDE DEF a, b
  <2>4. ASSUME Row(q) # "none", Write(q, "none", a, b) PROVE TotalMatchesRows'
    <3>1. a \in Int /\ b \in Int /\ a + b = In("none", Ballot) - In(Row(q), Ballot)
      BY <1>3, <2>3, <2>4
    <3>2. QED
      BY <2>1, <2>4, <3>1, WriteTotal
  <2>5. QED
    BY <1>2, <2>2, <2>4
<1>6. ASSUME NEW q \in Requests, FlipVote(q) PROVE TotalMatchesRows'
  <2>1. request[q].want # "none"
    BY <1>6 DEF FlipVote
  <2> DEFINE n == One(request[q].want, "up") - One(request[q].want, "down")
  <2>2. n \in Int /\ - n \in Int /\ n + (- n) = 0
    BY OneType
  <2> HIDE DEF n
  <2>3. NoChange(q) \/ (Row(q) # "none" /\ Write(q, request[q].want, n, - n))
    BY <1>6, FlipCases DEF n
  <2>4. request[q].want \in Ballot /\ (Row(q) # "none" => Row(q) \in Ballot)
    BY <2>1, RowType
  <2>5. ASSUME Row(q) # "none", Write(q, request[q].want, n, - n) PROVE TotalMatchesRows'
    <3>1. n + (- n) = In(request[q].want, Ballot) - In(Row(q), Ballot)
      BY <1>3, <2>2, <2>4, <2>5
    <3>2. QED
      BY <2>1, <2>2, <2>4, <2>5, <3>1, WriteTotal
  <2>6. QED
    BY <1>2, <2>3, <2>5
<1>7. QED
  BY <1>1, <1>4, <1>5, <1>6 DEF Next, ReadVote, vars

LEMMA HoldersInit ==
  ASSUME Init, NEW i \in Items, NEW B, "none" \notin B PROVE Cardinality(Holders(vote[i], B)) = 0
<1>1. Holders(vote[i], B) = {}
  BY DEF Init, Holders
<1>2. QED
  BY <1>1, FS_EmptySet

\* However votes race, the counters of an item add up to its vote rows.
THEOREM TotalIsExact == Spec => []TotalMatchesRows
<1>1. Init => TotalMatchesRows
  <2>1. "none" \notin Ballot
    BY DEF Ballot
  <2>2. Init => \A i \in Items : Cardinality(Holders(vote[i], Ballot)) = 0
    BY <2>1, HoldersInit
  <2>3. QED
    BY <2>2, TotalRestated DEF Init
<1>2. QED
  BY <1>1, InitInv, NextInv, TotalNext, PTL DEF Spec

-----------------------------------------------------------------------------

(* Each counter, when one user's votes on one item do not overlap. *)

Active(q) == request[q].want # "none"

\* No two requests are about one row, and what a request read is still there.
SerialInv ==
  /\ \A p, q \in Requests : Active(p) /\ Active(q) /\ p # q
       => request[p].user # request[q].user \/ request[p].item # request[q].item
  /\ \A q \in Requests : Active(q) => request[q].seen = Row(q)

LEMMA CountersRestated ==
  /\ CountersMatchRows
       <=> \A i \in Items : /\ upvotes[i] = Cardinality(Holders(vote[i], {"up"}))
                            /\ downvotes[i] = Cardinality(Holders(vote[i], {"down"}))
  /\ CountersMatchRows'
       <=> \A i \in Items : /\ upvotes'[i] = Cardinality(Holders(vote'[i], {"up"}))
                            /\ downvotes'[i] = Cardinality(Holders(vote'[i], {"down"}))
BY DEF CountersMatchRows, Voters, Holders

\* A write keeps both counters exact if each adds what its ballot gains.
LEMMA WriteCounters ==
  ASSUME Inv, CountersMatchRows, NEW q \in Requests, Active(q),
         NEW row, NEW up \in Int, NEW down \in Int, Write(q, row, up, down),
         up = In(row, {"up"}) - In(Row(q), {"up"}),
         down = In(row, {"down"}) - In(Row(q), {"down"})
  PROVE  CountersMatchRows'
<1>1. PICK i \in Items, u \in Users : i = request[q].item /\ u = request[q].user
  BY RowType DEF Active
<1>2. /\ vote'[i] = [vote[i] EXCEPT ![u] = row]
      /\ upvotes'[i] = upvotes[i] + up /\ downvotes'[i] = downvotes[i] + down
      /\ \A j \in Items \ {i} :
           vote'[j] = vote[j] /\ upvotes'[j] = upvotes[j] /\ downvotes'[j] = downvotes[j]
      /\ Row(q) = vote[i][u]
      /\ vote[i] \in [Users -> Ballot \cup {"none"}]
  BY <1>1, WriteEffect
<1>3. ASSUME NEW B PROVE /\ Cardinality(Holders(vote[i], B)) \in Nat
                         /\ In(row, B) \in Int /\ In(vote[i][u], B) \in Int
                         /\ Cardinality(Holders(vote'[i], B))
                              = Cardinality(Holders(vote[i], B)) + In(row, B) - In(vote[i][u], B)
  BY <1>2, HoldersFinite, HoldersAfterWrite DEF In
<1>4. upvotes[i] = Cardinality(Holders(vote[i], {"up"}))
  BY CountersRestated
<1>5. downvotes[i] = Cardinality(Holders(vote[i], {"down"}))
  BY CountersRestated
<1>6. upvotes'[i] = Cardinality(Holders(vote'[i], {"up"}))
  BY <1>2, <1>3, <1>4
<1>7. downvotes'[i] = Cardinality(Holders(vote'[i], {"down"}))
  BY <1>2, <1>3, <1>5
<1>8. \A j \in Items \ {i} : /\ upvotes'[j] = Cardinality(Holders(vote'[j], {"up"}))
                             /\ downvotes'[j] = Cardinality(Holders(vote'[j], {"down"}))
  BY <1>2, CountersRestated
<1>9. QED
  BY <1>6, <1>7, <1>8, CountersRestated

LEMMA OtherRow ==
  ASSUME NEW v \in [Items -> [Users -> Ballot \cup {"none"}]], NEW row,
         NEW i \in Items, NEW u \in Users, NEW j \in Items, NEW w \in Users, u # w \/ i # j
  PROVE  [v EXCEPT ![i][u] = row][j][w] = v[j][w]
<1>1. [v EXCEPT ![i][u] = row] = [v EXCEPT ![i] = [v[i] EXCEPT ![u] = row]]
  OBVIOUS
<1>2. CASE i # j
  BY <1>1, <1>2
<1>3. CASE i = j
  BY <1>1, <1>3
<1>4. QED
  BY <1>2, <1>3

\* A request that ends leaves the others apart and up to date.
LEMMA EndsSerial ==
  ASSUME Inv, SerialInv, NEW q \in Requests, Active(q),
         request' = [request EXCEPT ![q] = Idle],
         \/ vote' = vote
         \/ \E row : vote' = [vote EXCEPT ![request[q].item][request[q].user] = row]
  PROVE  SerialInv'
<1>1. \A p \in Requests : Active(p)' => p # q /\ Active(p) /\ request'[p] = request[p]
  BY IdleType DEF Inv, TypeOK, Active
<1>2. \A p \in Requests : Active(p)' => Row(p)' = Row(p)
  <2> SUFFICES ASSUME NEW p \in Requests, Active(p)' PROVE Row(p)' = Row(p)
    OBVIOUS
  <2>1. p # q /\ Active(p) /\ request'[p] = request[p]
    BY <1>1
  <2>2. request[p].user # request[q].user \/ request[p].item # request[q].item
    BY <2>1 DEF SerialInv
  <2>3. /\ request[p].item \in Items /\ request[p].user \in Users
        /\ request[q].item \in Items /\ request[q].user \in Users
    BY <2>1, RowType DEF Active
  <2>4. vote'[request[p].item][request[p].user] = vote[request[p].item][request[p].user]
    <3>1. CASE vote' = vote
      BY <3>1
    <3>2. CASE \E row : vote' = [vote EXCEPT ![request[q].item][request[q].user] = row]
      <4>1. PICK row : vote' = [vote EXCEPT ![request[q].item][request[q].user] = row]
        BY <3>2
      <4>2. vote \in [Items -> [Users -> Ballot \cup {"none"}]]
        BY DEF Inv, TypeOK
      <4>3. QED
        BY <2>2, <2>3, <4>1, <4>2, OtherRow
    <3>3. QED
      BY <3>1, <3>2
  <2>5. QED
    BY <2>1, <2>4 DEF Row
<1>3. QED
  BY <1>1, <1>2 DEF SerialInv

LEMMA ReadSerial ==
  ASSUME Inv, SerialInv, ~overlapped',
         NEW q \in Requests, NEW u \in Users, NEW i \in Items, NEW want \in Ballot,
         ReadVote(q, u, i, want)
  PROVE  SerialInv'
<1>1. vote' = vote /\ \A p \in Requests \ {q} : request'[p] = request[p]
  BY DEF Inv, TypeOK, ReadVote
<1>2. request'[q] = [user |-> u, item |-> i, want |-> want, seen |-> vote[i][u]]
  BY DEF Inv, TypeOK, ReadVote
<1>3. \A p \in Requests : request[p].user # u \/ request[p].item # i
  BY DEF ReadVote
<1>4. \A p \in Requests : Active(p)' => request'[p].seen = Row(p)'
  BY <1>1, <1>2 DEF SerialInv, Active, Row
<1>5. \A p \in Requests \ {q} :
        request'[p].user # request'[q].user \/ request'[p].item # request'[q].item
  BY <1>1, <1>2, <1>3
<1>6. QED
  BY <1>1, <1>4, <1>5 DEF SerialInv, Active

LEMMA BallotIn ==
  /\ \A b \in Ballot : One(b, "up") = In(b, {"up"}) /\ One(b, "down") = In(b, {"down"})
  /\ In("none", {"up"}) = 0 /\ In("none", {"down"}) = 0
  /\ \A b, c \in Ballot : b # c =>
       /\ One(b, "up") - One(b, "down") = In(b, {"up"}) - In(c, {"up"})
       /\ - (One(b, "up") - One(b, "down")) = In(b, {"down"}) - In(c, {"down"})
BY DEF Ballot, One, In

LEMMA InType == \A x, B : In(x, B) \in {0, 1}
BY DEF In

\* A request's row is the one it saw, so its write is the one it meant.
LEMMA WriteNext ==
  ASSUME Inv, SerialInv, CountersMatchRows, NEW q \in Requests,
         InsertVote(q) \/ DeleteVote(q) \/ FlipVote(q)
  PROVE  CountersMatchRows'
<1>1. Active(q)
  BY DEF Active, InsertVote, DeleteVote, FlipVote
<1>2. request[q].seen = Row(q)
  BY <1>1 DEF SerialInv
<1>3. request[q].want \in Ballot /\ Row(q) \in Ballot \cup {"none"}
  BY <1>1, RowType DEF Active
<1>4. CASE NoChange(q)
  BY <1>4 DEF NoChange, CountersMatchRows, Voters
<1>5. CASE InsertVote(q) /\ ~NoChange(q)
  <2> DEFINE a == One(request[q].want, "up")
             b == One(request[q].want, "down")
  <2>1. Row(q) = "none" /\ Write(q, request[q].want, a, b)
    BY <1>5, InsertCases
  <2>2. /\ a \in Int /\ a = In(request[q].want, {"up"}) - In(Row(q), {"up"})
        /\ b \in Int /\ b = In(request[q].want, {"down"}) - In(Row(q), {"down"})
    BY <1>3, <2>1, BallotIn, OneType, InType
  <2> HIDE DEF a, b
  <2>3. QED
    BY <1>1, <2>1, <2>2, WriteCounters
<1>6. CASE DeleteVote(q) /\ ~NoChange(q)
  <2> DEFINE a == - One(Row(q), "up")
             b == - One(Row(q), "down")
  <2>1. Row(q) # "none" /\ Write(q, "none", a, b)
    BY <1>6, DeleteCases
  <2>2. /\ a \in Int /\ a = In("none", {"up"}) - In(Row(q), {"up"})
        /\ b \in Int /\ b = In("none", {"down"}) - In(Row(q), {"down"})
    BY <1>3, <2>1, BallotIn, OneType, InType
  <2> HIDE DEF a, b
  <2>3. QED
    BY <1>1, <2>1, <2>2, WriteCounters
<1>7. CASE FlipVote(q) /\ ~NoChange(q)
  <2> DEFINE a == One(request[q].want, "up") - One(request[q].want, "down")
             b == - a
  <2>1. Row(q) # "none" /\ Write(q, request[q].want, a, b)
    BY <1>7, FlipCases
  <2>2. Row(q) # request[q].want
    BY <1>2, <1>7 DEF FlipVote
  <2>3. /\ a \in Int /\ a = In(request[q].want, {"up"}) - In(Row(q), {"up"})
        /\ b \in Int /\ b = In(request[q].want, {"down"}) - In(Row(q), {"down"})
    BY <1>3, <2>1, <2>2, BallotIn, OneType
  <2> HIDE DEF a, b
  <2>4. QED
    BY <1>1, <2>1, <2>3, WriteCounters
<1>8. QED
  BY <1>4, <1>5, <1>6, <1>7

LEMMA SerialNext ==
  ~overlapped' /\ Inv /\ SerialInv /\ CountersMatchRows /\ [Next]_vars
    => SerialInv' /\ CountersMatchRows'
<1> SUFFICES ASSUME ~overlapped', Inv, SerialInv, CountersMatchRows, [Next]_vars
             PROVE  SerialInv' /\ CountersMatchRows'
  OBVIOUS
<1>1. ASSUME NEW q \in Requests, NEW u \in Users, NEW i \in Items, NEW want \in Ballot,
             ReadVote(q, u, i, want)
      PROVE  SerialInv' /\ CountersMatchRows'
  <2>1. SerialInv'
    BY <1>1, ReadSerial
  <2>2. CountersMatchRows'
    BY <1>1 DEF ReadVote, CountersMatchRows, Voters
  <2>3. QED
    BY <2>1, <2>2
<1>2. ASSUME NEW q \in Requests, InsertVote(q) \/ DeleteVote(q) \/ FlipVote(q)
      PROVE  SerialInv' /\ CountersMatchRows'
  <2>1. Active(q)
    BY <1>2 DEF Active, InsertVote, DeleteVote, FlipVote
  <2>2. /\ request' = [request EXCEPT ![q] = Idle]
        /\ \/ vote' = vote
           \/ \E row : vote' = [vote EXCEPT ![request[q].item][request[q].user] = row]
    BY <1>2, InsertCases, DeleteCases, FlipCases DEF NoChange, Write
  <2>3. QED
    BY <1>2, <2>1, <2>2, EndsSerial, WriteNext
<1>3. CASE UNCHANGED vars
  BY <1>3 DEF vars, SerialInv, Active, Row, CountersMatchRows, Voters
<1>4. QED
  BY <1>1, <1>2, <1>3 DEF Next

LEMMA OverlapStays == ASSUME [Next]_vars, ~overlapped' PROVE ~overlapped
BY DEF Next, vars, ReadVote, InsertVote, DeleteVote, FlipVote, Write, NoChange

\* Unless votes of one user on one item have overlapped, upvote_count and
\* downvote_count are each the number of rows with that vote, whatever other
\* users do meanwhile.
THEOREM CountersAreExact == Spec => []CountersDriftOnlyByOverlap
<1> DEFINE Exact == ~overlapped => SerialInv /\ CountersMatchRows
<1>1. Init => Exact
  <2>1. Init => \A i \in Items : /\ Cardinality(Holders(vote[i], {"up"})) = 0
                                 /\ Cardinality(Holders(vote[i], {"down"})) = 0
    BY HoldersInit
  <2>2. Init => CountersMatchRows
    BY <2>1, CountersRestated DEF Init
  <2>3. Init => SerialInv
    BY IdleType DEF Init, SerialInv, Active
  <2>4. QED
    BY <2>2, <2>3
<1>2. Inv /\ Exact /\ [Next]_vars => Exact'
  BY SerialNext, OverlapStays
<1>3. Exact => CountersDriftOnlyByOverlap
  BY DEF CountersDriftOnlyByOverlap
<1>4. QED
  BY <1>1, <1>2, <1>3, InitInv, NextInv, PTL DEF Spec
=============================================================================
