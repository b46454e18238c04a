------------------------------ MODULE ClientProofs ------------------------------
(***************************************************************************)
(* A client that may be sent anything: its variables keep their types, it  *)
(* never searches or leaves more often than it was told it may, and never  *)
(* replies to an offer more often than it got it.  Theorems about          *)
(* OpenClient, for any number of clients, commands and messages.           *)
(***************************************************************************)
EXTENDS OpenClient, FiniteSetTheorems, SequenceTheorems, TLAPS

-------------------------------------------------------------------------------
(* Sequences: the first entry with a property, and a list without it. *)

LEMMA LeastNumber ==
    ASSUME NEW I, I \subseteq Nat, I # {}
    PROVE  Min(I) \in I
  <1> DEFINE R == StrictSubsetOrdering(Nat)
             T == {1 .. x : x \in I}
  <1>1. IsWellFoundedOn(R, FiniteSubsetsOf(Nat))
    BY FS_StrictSubsetOrderingWellFounded
  <1>2. T \subseteq FiniteSubsetsOf(Nat) /\ T # {}
    <2>1. ASSUME NEW x \in I
          PROVE  1 .. x \in SUBSET Nat /\ IsFiniteSet(1 .. x)
      BY FS_Interval
    <2> QED
      BY <2>1 DEF FiniteSubsetsOf
  <1>3. \E u \in T : \A v \in T : ~(<<v, u>> \in R)
    <2> HIDE DEF R, T
    <2> QED
      BY <1>1, <1>2, WFMin
  <1>4. PICK x \in I : \A y \in I : ~(<<1 .. y, 1 .. x>> \in R)
    BY <1>3
  <1>5. ASSUME NEW y \in I PROVE x =< y
    <2>1. ~(1 .. y \subseteq 1 .. x /\ 1 .. y # 1 .. x)
      <3>1. 1 .. y \in SUBSET Nat /\ 1 .. x \in SUBSET Nat
        OBVIOUS
      <3> QED
        BY <1>4, <3>1 DEF StrictSubsetOrdering
    <2>2. SUFFICES ASSUME y < x PROVE FALSE
      BY <1>5
    <2>3. 1 .. y \subseteq 1 .. x /\ x \in 1 .. x /\ x \notin 1 .. y
      BY <1>5, <2>2
    <2> QED
      BY <2>1, <2>3
  <1> QED
    BY <1>5 DEF Min

LEMMA FirstOfferListed ==
    ASSUME NEW p, NEW r, offers[p] \in Seq(ListedOffer), FirstOffer(p, r) # 0
    PROVE  /\ FirstOffer(p, r) \in 1 .. Len(offers[p])
           /\ offers[p][FirstOffer(p, r)].rq = r
  <1> DEFINE I == {i \in 1 .. Len(offers[p]) : offers[p][i].rq = r}
  <1>1. FirstOffer(p, r) = IF I # {} THEN Min(I) ELSE 0
    BY DEF FirstOffer, SelectInSeq
  <1>2. I \subseteq Nat
    OBVIOUS
  <1>3. FirstOffer(p, r) \in I
    <2> HIDE DEF I
    <2> QED
      BY <1>1, <1>2, LeastNumber
  <1> QED
    BY <1>3

LEMMA RemovedEntry ==
    ASSUME NEW A, NEW s \in Seq(A), NEW j \in 1 .. Len(s)
    PROVE  /\ RemoveAt(s, j) \in Seq(A)
           /\ Len(RemoveAt(s, j)) = Len(s) - 1
           /\ \A k \in 1 .. Len(s) - 1 :
                RemoveAt(s, j)[k] = IF k < j THEN s[k] ELSE s[k + 1]
  <1> DEFINE a == SubSeq(s, 1, j - 1)
             b == SubSeq(s, j + 1, Len(s))
  <1>1. a \in Seq(A) /\ Len(a) = j - 1 /\ \A k \in 1 .. j - 1 : a[k] = s[k]
    OBVIOUS
  <1>2. b \in Seq(A) /\ Len(b) = Len(s) - j /\ \A k \in 1 .. Len(s) - j : b[k] = s[k + j]
    OBVIOUS
  <1>3. RemoveAt(s, j) = a \o b
    BY DEF RemoveAt
  <1> HIDE DEF a, b
  <1>4. a \o b \in Seq(A) /\ Len(a \o b) = Len(a) + Len(b)
    BY <1>1, <1>2, ConcatProperties
  <1>5. ASSUME NEW k \in 1 .. Len(s) - 1
        PROVE  (a \o b)[k] = IF k < j THEN s[k] ELSE s[k + 1]
    <2>1. CASE k < j
      BY <1>1, <1>2, <2>1
    <2>2. CASE ~(k < j)
      <3>1. (a \o b)[k] = b[k - (j - 1)]
        BY <1>1, <1>2, <2>2
      <3>2. k - (j - 1) \in 1 .. Len(s) - j /\ (k - (j - 1)) + j = k + 1
        BY <2>2
      <3> QED
        BY <1>2, <2>2, <3>1, <3>2
    <2> QED
      BY <2>1, <2>2
  <1> QED
    BY <1>1, <1>2, <1>3, <1>4, <1>5

-------------------------------------------------------------------------------
(* Lists of offers: how many of them are in a set. *)

Listed(s, O) == {k \in DOMAIN s : s[k] \in O}

\* A list is finite, and so are the offers on it.
LEMMA ListedType ==
    ASSUME NEW A, NEW s \in Seq(A), NEW O
    PROVE  IsFiniteSet(Listed(s, O)) /\ Cardinality(Listed(s, O)) \in Nat
  <1>1. Len(s) \in Nat /\ Listed(s, O) \subseteq 1 .. Len(s)
    BY DEF Listed
  <1>2. IsFiniteSet(1 .. Len(s))
    BY <1>1, FS_Interval
  <1> QED
    BY <1>1, <1>2, FS_Subset, FS_CardinalityType

\* What is appended counts for one if it is in the set.
LEMMA ListedAppended ==
    ASSUME NEW A, NEW s \in Seq(A), NEW e \in A, NEW O
    PROVE  Cardinality(Listed(Append(s, e), O))
             = Cardinality(Listed(s, O)) + (IF e \in O THEN 1 ELSE 0)
  <1>1. /\ Append(s, e) \in Seq(A) /\ Len(Append(s, e)) = Len(s) + 1
        /\ \A k \in 1 .. Len(s) : Append(s, e)[k] = s[k]
        /\ Append(s, e)[Len(s) + 1] = e
    BY AppendProperties
  <1>2. Len(s) \in Nat /\ DOMAIN s = 1 .. Len(s) /\ DOMAIN Append(s, e) = 1 .. Len(s) + 1
    BY <1>1
  <1>3. Listed(Append(s, e), O)
          = IF e \in O THEN Listed(s, O) \cup {Len(s) + 1} ELSE Listed(s, O)
    BY <1>1, <1>2 DEF Listed
  <1>4. Len(s) + 1 \notin Listed(s, O) /\ IsFiniteSet(Listed(s, O))
    <2>1. Len(s) + 1 \notin Listed(s, O)
      BY <1>2 DEF Listed
    <2> QED
      BY <2>1, ListedType
  <1>5. Cardinality(Listed(s, O) \cup {Len(s) + 1}) = Cardinality(Listed(s, O)) + 1
    BY <1>4, FS_AddElement
  <1>6. Cardinality(Listed(s, O)) \in Nat
    BY ListedType
  <1> QED
    BY <1>3, <1>5, <1>6

\* What is removed no longer counts.
LEMMA ListedRemoved ==
    ASSUME NEW A, NEW s \in Seq(A), NEW j \in 1 .. Len(s), NEW O
    PROVE  Cardinality(Listed(RemoveAt(s, j), O))
             = Cardinality(Listed(s, O)) - (IF s[j] \in O THEN 1 ELSE 0)
  <1> DEFINE t == RemoveAt(s, j)
             Old(k) == IF k < j THEN k ELSE k + 1
             S == Listed(s, O) \ {j}
             T == Listed(t, O)
             f == [k \in T |-> Old(k)]
  <1>1. /\ DOMAIN s = 1 .. Len(s) /\ Len(s) \in Nat /\ DOMAIN t = 1 .. Len(s) - 1
        /\ \A k \in 1 .. Len(s) - 1 : t[k] = s[Old(k)]
    <2>1. /\ t \in Seq(A) /\ Len(t) = Len(s) - 1
          /\ \A k \in 1 .. Len(s) - 1 : t[k] = IF k < j THEN s[k] ELSE s[k + 1]
      BY RemovedEntry
    <2> HIDE DEF t
    <2>2. \A k \in 1 .. Len(s) - 1 : t[k] = s[Old(k)]
      BY <2>1
    <2> QED
      BY <2>1, <2>2
  <1> HIDE DEF t
  <1>2. \A k \in T : Old(k) \in S
    BY <1>1 DEF Listed
  <1>3. \A k, l \in T : Old(k) = Old(l) => k = l
    BY <1>1 DEF Listed
  <1>4. ASSUME NEW i \in S
        PROVE  \E k \in T : Old(k) = i
    <2> DEFINE k == IF i < j THEN i ELSE i - 1
    <2>1. i \in 1 .. Len(s) /\ i # j /\ s[i] \in O
      BY <1>1 DEF Listed
    <2>2. k \in 1 .. Len(s) - 1 /\ Old(k) = i
      BY <1>1, <2>1
    <2>3. k \in T
      BY <1>1, <2>1, <2>2 DEF Listed
    <2> QED
      BY <2>2, <2>3
  <1>5. f \in Bijection(T, S)
    <2> HIDE DEF S, T, Old
    <2>1. f \in [T -> S] /\ \A k \in T : f[k] = Old(k)
      BY <1>2
    <2> HIDE DEF f
    <2>2. f \in Injection(T, S)
      BY <1>3, <2>1 DEF Injection, IsInjective
    <2>3. f \in Surjection(T, S)
      BY <1>4, <2>1 DEF Surjection
    <2> QED
      BY <2>2, <2>3 DEF Bijection
  <1>6. IsFiniteSet(T)
    BY ListedType, RemovedEntry DEF t
  <1>7. Cardinality(S) = Cardinality(T)
    <2> HIDE DEF S, T, f
    <2> QED
      BY <1>5, <1>6, FS_Bijection DEF ExistsBijection
  <1>8. IsFiniteSet(Listed(s, O)) /\ Cardinality(Listed(s, O)) \in Nat
    BY ListedType
  <1>9. j \in Listed(s, O) <=> s[j] \in O
    BY <1>1 DEF Listed
  <1> QED
    <2>1. Cardinality(S) = IF j \in Listed(s, O) THEN Cardinality(Listed(s, O)) - 1
                           ELSE Cardinality(Listed(s, O))
      BY <1>8, FS_RemoveElement
    <2> HIDE DEF S, T
    <2>2. Cardinality(T) = Cardinality(Listed(s, O)) - (IF s[j] \in O THEN 1 ELSE 0)
      BY <1>7, <1>8, <1>9, <2>1
    <2> QED
      BY <2>2 DEF t, T

-------------------------------------------------------------------------------
(* Bags: the copies in a bag of the datagrams of a set. *)

Among(B, K) == Copies(B, DOMAIN B \cap K)

LEMMA BagMore ==
    ASSUME NEW B, IsABag(B), NEW d, NEW D, D = {d}
    PROVE  /\ IsABag(B (+) SetToBag(D))
           /\ DOMAIN (B (+) SetToBag(D)) = DOMAIN B \cup {d}
  BY DEF IsABag, (+), SetToBag, BagIn

LEMMA BagLess ==
    ASSUME NEW B, IsABag(B), NEW d \in DOMAIN B, NEW D, D = {d}
    PROVE  /\ IsABag(B (-) SetToBag(D))
           /\ DOMAIN (B (-) SetToBag(D)) = IF B[d] = 1 THEN DOMAIN B \ {d} ELSE DOMAIN B
           /\ \A e \in DOMAIN (B (-) SetToBag(D)) :
                (B (-) SetToBag(D))[e] = IF e = d THEN B[e] - 1 ELSE B[e]
  BY DEF IsABag, (-), SetToBag, BagIn

\* One more datagram is one copy more, if it is in the set.
LEMMA OneMore ==
    ASSUME NEW B, IsABag(B), NEW d, NEW D, D = {d}, NEW K, IsFiniteSet(Among(B, K))
    PROVE  /\ IsFiniteSet(Among(B (+) SetToBag(D), K))
           /\ Cardinality(Among(B (+) SetToBag(D), K))
                = Cardinality(Among(B, K)) + (IF d \in K THEN 1 ELSE 0)
  <1> DEFINE C == B (+) SetToBag(D)
             n == IF d \in DOMAIN B THEN B[d] + 1 ELSE 1
             U == Among(B, K)
             V == Among(C, K)
  <1>1. /\ DOMAIN C = DOMAIN B \cup {d} /\ C[d] = n
        /\ \A e \in DOMAIN B : e # d => C[e] = B[e]
    <2>1. DOMAIN C = DOMAIN B \cup {d}
      BY BagMore
    <2>2. C[d] = IF d \in DOMAIN B THEN B[d] + 1 ELSE 1
      BY DEF IsABag, (+), SetToBag, BagIn
    <2>3. \A e \in DOMAIN B : e # d => C[e] = B[e]
      BY DEF IsABag, (+), SetToBag, BagIn
    <2> QED
      BY <2>1, <2>2, <2>3
  <1>2. \A e \in DOMAIN B : B[e] \in Nat \ {0}
    BY DEF IsABag
  <1> HIDE DEF C
  <1>3. CASE d \notin K
    <2>1. V = U
      BY <1>1, <1>3 DEF Among, Copies
    <2> QED
      BY <1>3, <2>1, FS_CardinalityType DEF C
  <1>4. CASE d \in K
    <2>1. n \in Nat \ {0} /\ 1 .. n = (IF d \in DOMAIN B THEN 1 .. B[d] ELSE {}) \cup {n}
      BY <1>2
    <2>2. \A x : x \in U <=> \E e \in DOMAIN B \cap K : \E k \in 1 .. B[e] : x = <<e, k>>
      BY DEF Among, Copies
    <2>3. \A x : x \in V <=> \E e \in DOMAIN C \cap K : \E k \in 1 .. C[e] : x = <<e, k>>
      BY DEF Among, Copies
    <2>4. <<d, n>> \notin U
      BY <1>2, <2>2
    <2> HIDE DEF n, U, V
    <2>5. V \subseteq U \cup {<<d, n>>}
      BY <1>1, <2>1, <2>2, <2>3
    <2>6. U \cup {<<d, n>>} \subseteq V
      BY <1>1, <1>4, <2>1, <2>2, <2>3
    <2>7. V = U \cup {<<d, n>>}
      BY <2>5, <2>6
    <2>8. IsFiniteSet(U)
      BY DEF U
    <2>9. IsFiniteSet(V) /\ Cardinality(V) = Cardinality(U) + 1
      BY <2>4, <2>7, <2>8, FS_AddElement
    <2> QED
      BY <1>4, <2>9 DEF C, U, V
  <1> QED
    BY <1>3, <1>4

\* One datagram less is one copy less.
LEMMA OneLess ==
    ASSUME NEW B, IsABag(B), NEW d \in DOMAIN B, NEW D, D = {d}, NEW K,
           IsFiniteSet(Among(B, K))
    PROVE  /\ IsFiniteSet(Among(B (-) SetToBag(D), K))
           /\ Cardinality(Among(B (-) SetToBag(D), K))
                = Cardinality(Among(B, K)) - (IF d \in K THEN 1 ELSE 0)
  <1> DEFINE C == B (-) SetToBag(D)
             U == Among(B, K)
             V == Among(C, K)
             x == <<d, B[d]>>
  <1>1. /\ DOMAIN C = IF B[d] = 1 THEN DOMAIN B \ {d} ELSE DOMAIN B
        /\ \A e \in DOMAIN C : C[e] = IF e = d THEN B[e] - 1 ELSE B[e]
    BY BagLess
  <1>2. \A e \in DOMAIN B : B[e] \in Nat \ {0}
    BY DEF IsABag
  <1> HIDE DEF C
  <1>3. \A y : y \in U <=> \E e \in DOMAIN B \cap K : \E k \in 1 .. B[e] : y = <<e, k>>
    BY DEF Among, Copies
  <1>4. \A y : y \in V <=> \E e \in DOMAIN C \cap K : \E k \in 1 .. C[e] : y = <<e, k>>
    BY DEF Among, Copies
  <1>5. IsFiniteSet(U) /\ (x \in U <=> d \in K)
    BY <1>2, <1>3
  <1> HIDE DEF U, V
  <1>6. V \subseteq U \ {x}
    BY <1>1, <1>2, <1>3, <1>4
  <1>7. U \ {x} \subseteq V
    BY <1>1, <1>2, <1>3, <1>4
  <1>8. V = U \ {x}
    BY <1>6, <1>7
  <1> HIDE DEF x
  <1>9. /\ IsFiniteSet(V)
        /\ Cardinality(V) = IF x \in U THEN Cardinality(U) - 1 ELSE Cardinality(U)
    BY <1>5, <1>8, FS_RemoveElement
  <1>10. Cardinality(U) \in Nat
    BY <1>5, FS_CardinalityType
  <1>11. Cardinality(V) = Cardinality(U) - (IF d \in K THEN 1 ELSE 0)
    BY <1>5, <1>9, <1>10
  <1> QED
    BY <1>9, <1>11 DEF C, U, V

-------------------------------------------------------------------------------
(* Type correctness, one lemma per kind of step. *)

Heard == [to : Peers, msg : Inputs]
ClientInv ==
    /\ ClientTypeOK
    /\ IsABag(toServer) /\ DOMAIN toServer \subseteq Datagram
    /\ IsABag(toPeers) /\ DOMAIN toPeers \subseteq Heard
    /\ IsABag(heard) /\ DOMAIN heard \subseteq Heard

PeersBagsOK ==
    /\ IsABag(toPeers) /\ DOMAIN toPeers \subseteq Heard
    /\ IsABag(heard) /\ DOMAIN heard \subseteq Heard
ServerBagOK == IsABag(toServer) /\ DOMAIN toServer \subseteq Datagram

LEMMA SendKeepsBag ==
    ASSUME ServerBagOK, NEW p \in Peers, NEW m \in ClientMessages, Send(p, m)
    PROVE  ServerBagOK'
  <1> DEFINE d == [from |-> p, msg |-> m]
             D == {d}
  <1>1. toServer' = toServer (+) SetToBag(D)
    BY DEF Send
  <1>2. d \in Datagram
    BY DEF Datagram
  <1> HIDE DEF d
  <1>3. D = {d}
    OBVIOUS
  <1> HIDE DEF D
  <1>4. IsABag(toServer) /\ DOMAIN toServer \subseteq Datagram
    BY DEF ServerBagOK
  <1>5. /\ IsABag(toServer (+) SetToBag(D))
        /\ DOMAIN (toServer (+) SetToBag(D)) = DOMAIN toServer \cup {d}
    BY <1>3, <1>4, BagMore
  <1> QED
    BY <1>1, <1>2, <1>4, <1>5 DEF ServerBagOK

LEMMA DeliverKeepsBags ==
    ASSUME PeersBagsOK, NEW d \in DOMAIN toPeers, Deliver(d), heard' = heard
    PROVE  PeersBagsOK'
  <1> DEFINE D == {d}
  <1>1. toPeers' = toPeers (-) SetToBag(D)
    BY DEF Deliver
  <1>2. D = {d}
    OBVIOUS
  <1> HIDE DEF D
  <1>3. IsABag(toPeers)
    BY DEF PeersBagsOK
  <1>4. /\ IsABag(toPeers (-) SetToBag(D))
        /\ DOMAIN (toPeers (-) SetToBag(D)) \subseteq DOMAIN toPeers
    <2>1. /\ IsABag(toPeers (-) SetToBag(D))
          /\ DOMAIN (toPeers (-) SetToBag(D))
               = IF toPeers[d] = 1 THEN DOMAIN toPeers \ {d} ELSE DOMAIN toPeers
      BY <1>2, <1>3, BagLess
    <2> QED
      BY <2>1
  <1> QED
    BY <1>1, <1>4 DEF PeersBagsOK

LEMMA PeerIsSentType ==
    ASSUME PeersBagsOK, NEW p \in Peers, PeerIsSent(p)
    PROVE  PeersBagsOK'
  <1>1. PICK m \in Inputs :
          /\ toPeers' = toPeers (+) SetToBag({[to |-> p, msg |-> m]})
          /\ heard' = heard (+) SetToBag({[to |-> p, msg |-> m]})
    BY DEF PeerIsSent
  <1> DEFINE d == [to |-> p, msg |-> m]
             D == {d}
  <1>2. toPeers' = toPeers (+) SetToBag(D) /\ heard' = heard (+) SetToBag(D)
    BY <1>1
  <1>3. d \in Heard /\ D = {d}
    BY DEF Heard
  <1> HIDE DEF d, D
  <1>4. /\ IsABag(toPeers (+) SetToBag(D)) /\ IsABag(heard (+) SetToBag(D))
        /\ DOMAIN (toPeers (+) SetToBag(D)) = DOMAIN toPeers \cup {d}
        /\ DOMAIN (heard (+) SetToBag(D)) = DOMAIN heard \cup {d}
    BY <1>3, BagMore DEF PeersBagsOK
  <1> QED
    BY <1>2, <1>3, <1>4 DEF PeersBagsOK

LEMMA MessagesTyped ==
    ASSUME NEW p \in Peers, NEW r \in Rqs
    PROVE  /\ RegisterMsg(p, r) \in ClientMessages /\ DeregisterMsg(p, r) \in ClientMessages
           /\ \A i \in Items, x \in Prices :
                /\ LookingForMsg(p, r, i, x) \in ClientMessages
                /\ OfferMsg(p, r, i, x) \in ClientMessages
                /\ \A cmd \in TradeCommands : TradeMsg(cmd, p, r, i, x) \in ClientMessages
  BY DEF ClientMessages, RegisterMsg, DeregisterMsg, LookingForMsg, OfferMsg, TradeMsg

\* What the tests of the commands read of a datagram received.
LEMMA InputFields ==
    ASSUME NEW d \in Heard
    PROVE  /\ d.to \in Peers
           /\ d.msg.command = "SEARCH" => d.msg.rq \in Rqs /\ d.msg.item_name \in Items
           /\ d.msg.command # "NEGOTIATE"
           /\ d.msg.command = "OFFER" =>
                d.msg.rq \in Rqs /\ d.msg.item_name \in Items /\ d.msg.price \in Prices
  BY SomeRqAssumption DEF Heard, Inputs, RegisteredMsg, SearchMsg

LEMMA NumberTaken ==
    ASSUME ClientTypeOK, NEW p \in Peers, TakesNumber(p)
    PROVE  /\ nextRq[p] \in Rqs
           /\ nextRq' \in [Peers -> 1 .. MaxRq + 1]
  <1>1. nextRq[p] \in 1 .. MaxRq + 1 /\ nextRq[p] <= RqLimit[p] /\ RqLimit[p] \in 0 .. MaxRq
    BY RqLimitAssumption DEF ClientTypeOK, TakesNumber
  <1>2. nextRq[p] \in 1 .. MaxRq
    BY <1>1, MaxRqAssumption
  <1>3. nextRq' = [nextRq EXCEPT ![p] = nextRq[p] + 1] /\ nextRq[p] + 1 \in 1 .. MaxRq + 1
    BY <1>2, MaxRqAssumption DEF TakesNumber
  <1> QED
    BY <1>2, <1>3 DEF ClientTypeOK, Rqs

LEMMA SentType ==
    ASSUME ClientInv, NEW p \in Peers, NEW m \in ClientMessages, NEW state \in ClientStates,
           SendThenAssign(p, m, state)
    PROVE  ServerBagOK' /\ assigning' \in [Peers -> ClientStates \cup {"none"}]
  <1>1. ServerBagOK
    BY DEF ClientInv, ServerBagOK
  <1>2. CASE UNCHANGED <<toServer, assigning>>
    BY <1>1, <1>2 DEF ServerBagOK, ClientInv, ClientTypeOK
  <1>3. CASE Send(p, m) /\ assigning' = [assigning EXCEPT ![p] = state]
    BY <1>1, <1>3, SendKeepsBag DEF ClientInv, ClientTypeOK
  <1> QED
    BY <1>2, <1>3 DEF SendThenAssign

LEMMA FirstItemListed ==
    ASSUME NEW p, NEW name, inventory[p] \in Seq(Item), FirstItem(p, name) # 0
    PROVE  FirstItem(p, name) \in 1 .. Len(inventory[p])
  <1> DEFINE I == {i \in 1 .. Len(inventory[p]) : inventory[p][i].name = name}
  <1>1. FirstItem(p, name) = IF I # {} THEN Min(I) ELSE 0
    BY DEF FirstItem, SelectInSeq
  <1>2. I \subseteq Nat
    OBVIOUS
  <1>3. FirstItem(p, name) \in I
    <2> HIDE DEF I
    <2> QED
      BY <1>1, <1>2, LeastNumber
  <1> QED
    BY <1>3

LEMMA CommandType ==
    ASSUME ClientInv, NEW p \in Peers, CommandThread(p), UNCHANGED heard
    PROVE  ClientInv'
  <1> USE DEF ClientInv
  <1>0. PeersBagsOK /\ ServerBagOK
    BY DEF PeersBagsOK, ServerBagOK
  <1>1. ASSUME NEW m \in ClientMessages, NEW state \in ClientStates, SendThenAssign(p, m, state),
               nextRq' \in [Peers -> 1 .. MaxRq + 1],
               UNCHANGED <<clientState, inventory, offers>>,
               quitting' \in [Peers -> BOOLEAN], running' \in [Peers -> BOOLEAN]
        PROVE  ClientInv'
    <2>1. ServerBagOK' /\ assigning' \in [Peers -> ClientStates \cup {"none"}]
      BY <1>1, SentType
    <2>2. toPeers' = toPeers
      BY <1>1 DEF SendThenAssign
    <2> QED
      BY <1>1, <2>1, <2>2 DEF ServerBagOK, ClientTypeOK
  <1>2. /\ quitting \in [Peers -> BOOLEAN] /\ running \in [Peers -> BOOLEAN]
        /\ {"REGISTERING", "UNREGISTERED", "SEARCHING"} \subseteq ClientStates
    BY DEF ClientTypeOK, ClientStates
  <1>3. CASE RegisterWithServer(p)
    BY <1>1, <1>2, <1>3, NumberTaken, MessagesTyped DEF RegisterWithServer
  <1>4. CASE Deregister(p)
    BY <1>1, <1>2, <1>4, NumberTaken, MessagesTyped DEF Deregister
  <1>5. CASE SearchItem(p)
    <2>1. PICK i \in Items, max \in Prices :
            SendThenAssign(p, LookingForMsg(p, nextRq[p], i, max), "SEARCHING")
      BY <1>5 DEF SearchItem
    <2>2. /\ LookingForMsg(p, nextRq[p], i, max) \in ClientMessages
          /\ nextRq' \in [Peers -> 1 .. MaxRq + 1]
      BY <1>5, NumberTaken, MessagesTyped DEF SearchItem
    <2> QED
      BY <1>1, <1>2, <1>5, <2>1, <2>2 DEF SearchItem
  <1>6. CASE AssignState(p)
    <2>1. assigning[p] \in ClientStates /\ "none" \in ClientStates \cup {"none"}
      BY <1>6 DEF AssignState, ClientTypeOK
    <2> QED
      BY <1>6, <2>1 DEF AssignState, ClientTypeOK, netVars
  <1>7. CASE Quit(p)
    <2>1. CASE /\ clientState[p] = "REGISTERED"
               /\ TakesNumber(p)
               /\ SendThenAssign(p, DeregisterMsg(p, nextRq[p]), "UNREGISTERED")
               /\ quitting' = [quitting EXCEPT ![p] = assigning'[p] # "none"]
               /\ running' = [running EXCEPT ![p] = assigning'[p] # "none"]
      <3>1. quitting' \in [Peers -> BOOLEAN] /\ running' \in [Peers -> BOOLEAN]
        BY <1>2, <2>1
      <3>2. UNCHANGED <<clientState, inventory, offers>>
        BY <1>7 DEF Quit
      <3> QED
        BY <1>1, <1>2, <2>1, <3>1, <3>2, NumberTaken, MessagesTyped
    <2>2. CASE /\ running' = [running EXCEPT ![p] = FALSE]
               /\ UNCHANGED <<netVars, assigning, quitting, nextRq>>
      BY <1>7, <2>2 DEF Quit, ClientTypeOK, netVars
    <2> QED
      BY <1>7, <2>1, <2>2 DEF Quit
  <1>8. CASE InputEnds(p)
    BY <1>8 DEF InputEnds, ClientTypeOK, netVars
  <1>9. CASE AddItem(p)
    BY <1>9 DEF AddItem, ClientTypeOK, netVars, threadVars
  <1>10. CASE RemoveItem(p)
    <2>1. PICK name \in Items :
            /\ FirstItem(p, name) # 0
            /\ inventory' = [inventory EXCEPT ![p] = RemoveAt(@, FirstItem(p, name))]
      BY <1>10 DEF RemoveItem
    <2>2. inventory[p] \in Seq(Item)
      BY DEF ClientTypeOK
    <2>3. RemoveAt(inventory[p], FirstItem(p, name)) \in Seq(Item)
      BY <2>1, <2>2, FirstItemListed, RemovedEntry
    <2> QED
      BY <1>10, <2>1, <2>3 DEF RemoveItem, ClientTypeOK, netVars, threadVars
  <1> QED
    BY <1>3, <1>4, <1>5, <1>6, <1>7, <1>8, <1>9, <1>10 DEF CommandThread

\* The list without the first offer for r, and that offer.
LEMMA OfferTaken ==
    ASSUME ClientInv, NEW p \in Peers, NEW r \in Rqs, FirstOffer(p, r) # 0,
           offers' = Unlisted(p, r)
    PROVE  /\ offers' \in [Peers -> Seq(ListedOffer)]
           /\ offers[p][FirstOffer(p, r)] \in ListedOffer
           /\ offers[p][FirstOffer(p, r)].rq = r
           /\ \A q \in Peers : q # p => offers'[q] = offers[q]
           /\ \A O : Cardinality(Listed(offers[p], O)) =
                       Cardinality(Listed(offers'[p], O))
                         + (IF offers[p][FirstOffer(p, r)] \in O THEN 1 ELSE 0)
  <1> DEFINE j == FirstOffer(p, r)
             s == offers[p]
  <1>1. s \in Seq(ListedOffer) /\ offers \in [Peers -> Seq(ListedOffer)]
    BY DEF ClientInv, ClientTypeOK
  <1>2. j \in 1 .. Len(s) /\ s[j].rq = r
    BY <1>1, FirstOfferListed
  <1>3. offers' = [offers EXCEPT ![p] = RemoveAt(s, j)]
    BY DEF Unlisted
  <1> HIDE DEF j, s
  <1>4. RemoveAt(s, j) \in Seq(ListedOffer) /\ s[j] \in ListedOffer
    BY <1>1, <1>2, RemovedEntry
  <1>5. ASSUME NEW O
        PROVE  Cardinality(Listed(s, O))
                 = Cardinality(Listed(RemoveAt(s, j), O)) + (IF s[j] \in O THEN 1 ELSE 0)
    <2>1. Cardinality(Listed(RemoveAt(s, j), O))
            = Cardinality(Listed(s, O)) - (IF s[j] \in O THEN 1 ELSE 0)
      BY <1>1, <1>2, ListedRemoved
    <2>2. Cardinality(Listed(s, O)) \in Nat
      BY <1>1, ListedType
    <2> QED
      BY <2>1, <2>2
  <1>6. offers'[p] = RemoveAt(s, j) /\ \A q \in Peers : q # p => offers'[q] = offers[q]
    BY <1>1, <1>3
  <1>7. offers' \in [Peers -> Seq(ListedOffer)]
    BY <1>1, <1>3, <1>4
  <1> QED
    BY <1>2, <1>4, <1>5, <1>6, <1>7 DEF j, s

LEMMA TradeType ==
    ASSUME ClientInv, NEW p \in Peers, TradeCommand(p), UNCHANGED heard
    PROVE  ClientInv'
  <1>0. PeersBagsOK /\ ServerBagOK
    BY DEF ClientInv, PeersBagsOK, ServerBagOK
  <1>1. ASSUME NEW r \in Rqs, NEW price \in Prices, NEW cmd \in TradeCommands, NEW o \in ListedOffer
        PROVE  /\ TradeMsg(cmd, p, r, o.name, price) \in ClientMessages
               /\ TradeMsg(cmd, p, r, o.name, o.price) \in ClientMessages
    BY <1>1, MessagesTyped DEF ListedOffer
  <1>2. CASE NegotiateOffer(p)
    <2>1. PICK r \in Rqs, price \in Prices :
            LET o == offers[p][FirstOffer(p, r)] IN
            /\ FirstOffer(p, r) # 0
            /\ offers' = Unlisted(p, r)
            /\ SendThenAssign(p, TradeMsg("NEGOTIATE", p, r, o.name, price), "NEGOTIATING")
      BY <1>2 DEF NegotiateOffer
    <2> DEFINE o == offers[p][FirstOffer(p, r)]
               m == TradeMsg("NEGOTIATE", p, r, o.name, price)
    <2>2. offers' \in [Peers -> Seq(ListedOffer)] /\ o \in ListedOffer
      BY <2>1, OfferTaken
    <2>3. m \in ClientMessages /\ "NEGOTIATING" \in ClientStates
      BY <1>1, <2>2 DEF TradeCommands, ClientStates
    <2>4. SendThenAssign(p, m, "NEGOTIATING")
      BY <2>1
    <2> HIDE DEF m, o
    <2>5. ServerBagOK' /\ assigning' \in [Peers -> ClientStates \cup {"none"}]
      BY <2>3, <2>4, SentType
    <2>6. UNCHANGED <<toPeers, clientState, quitting, running, inventory, nextRq>>
      BY <1>2, <2>4 DEF NegotiateOffer, SendThenAssign
    <2> QED
      BY <2>2, <2>5, <2>6 DEF ClientInv, ServerBagOK, ClientTypeOK
  <1>3. ASSUME NEW command, NEW cmd \in TradeCommands, AcceptOrRefuseOffer(p, command, cmd)
        PROVE  ClientInv'
    <2>1. PICK r \in Rqs :
            LET o == offers[p][FirstOffer(p, r)] IN
            /\ FirstOffer(p, r) # 0
            /\ offers' = Unlisted(p, r)
            /\ Send(p, TradeMsg(cmd, p, r, o.name, o.price)) \/ UNCHANGED toServer
      BY <1>3 DEF AcceptOrRefuseOffer
    <2> DEFINE o == offers[p][FirstOffer(p, r)]
               m == TradeMsg(cmd, p, r, o.name, o.price)
    <2>2. offers' \in [Peers -> Seq(ListedOffer)] /\ o \in ListedOffer
      BY <2>1, OfferTaken
    <2>3. m \in ClientMessages
      <3>1. o.price \in Prices
        BY <2>2 DEF ListedOffer
      <3> HIDE DEF o
      <3> QED
        BY <1>1, <2>2, <3>1
    <2>4. Send(p, m) \/ UNCHANGED toServer
      BY <2>1
    <2> HIDE DEF m, o
    <2>5. ServerBagOK'
      BY <1>0, <2>3, <2>4, SendKeepsBag DEF ServerBagOK
    <2>6. UNCHANGED <<toPeers, clientState, assigning, quitting, running, inventory, nextRq>>
      BY <1>3 DEF AcceptOrRefuseOffer, threadVars
    <2> QED
      BY <2>2, <2>5, <2>6 DEF ClientInv, ServerBagOK, ClientTypeOK
  <1> QED
    BY <1>2, <1>3 DEF TradeCommand, TradeCommands

LEMMA ReceiveType ==
    ASSUME ClientInv, NEW p \in Peers, ReceiveThread(p), UNCHANGED heard
    PROVE  ClientInv'
  <1>0. PeersBagsOK /\ ServerBagOK
    BY DEF ClientInv, PeersBagsOK, ServerBagOK
  <1>1. PICK d \in DOMAIN toPeers : HandleSearchEvent(p, d) \/ HandleReceivedMessage(p, d)
    BY DEF ReceiveThread
  <1>2. d \in Heard
    BY DEF ClientInv
  <1>3. PeersBagsOK'
    BY <1>0, <1>1, DeliverKeepsBags DEF HandleSearchEvent, HandleReceivedMessage
  <1>4. CASE HandleSearchEvent(p, d)
    <2> DEFINE k == FirstItem(p, d.msg.item_name)
               m == OfferMsg(p, d.msg.rq, d.msg.item_name, inventory[p][k].price)
    <2>1. UNCHANGED toServer \/ (k # 0 /\ Send(p, m))
      BY <1>4 DEF HandleSearchEvent
    <2>2. ASSUME k # 0 PROVE m \in ClientMessages
      <3>1. inventory[p] \in Seq(Item)
        BY DEF ClientInv, ClientTypeOK
      <3>2. inventory[p][k] \in Item
        BY <2>2, <3>1, FirstItemListed
      <3>3. inventory[p][k].price \in Prices
        BY <3>2 DEF Item
      <3>4. d.msg.rq \in Rqs /\ d.msg.item_name \in Items
        BY <1>2, <1>4, InputFields DEF HandleSearchEvent
      <3> HIDE DEF k
      <3> QED
        BY <3>3, <3>4, MessagesTyped
    <2> HIDE DEF k, m
    <2>3. ServerBagOK'
      BY <1>0, <2>1, <2>2, SendKeepsBag DEF ServerBagOK
    <2> QED
      BY <1>3, <1>4, <2>3 DEF HandleSearchEvent, ClientInv, PeersBagsOK, ServerBagOK, ClientTypeOK,
         clientVars, threadVars
  <1>5. CASE HandleReceivedMessage(p, d)
    <2>1. ASSUME NEW t PROVE StateAfter(t, clientState[p]) \in ClientStates
      BY DEF StateAfter, ClientStates, ClientInv, ClientTypeOK
    <2>2. OffersAfter(p, d.msg) \in Seq(ListedOffer)
      <3>1. offers[p] \in Seq(ListedOffer)
        BY DEF ClientInv, ClientTypeOK
      <3>2. CASE d.msg.command = "OFFER"
        <4> DEFINE o == [rq |-> d.msg.rq, name |-> d.msg.item_name, price |-> d.msg.price]
        <4>1. o \in ListedOffer
          BY <1>2, <3>2, InputFields DEF ListedOffer
        <4>2. OffersAfter(p, d.msg) \in {offers[p], Append(offers[p], o)}
          BY <3>2 DEF OffersAfter
        <4> HIDE DEF o
        <4> QED
          BY <3>1, <4>1, <4>2, AppendProperties
      <3>3. CASE d.msg.command # "OFFER"
        BY <1>2, <3>1, <3>3, InputFields DEF OffersAfter
      <3> QED
        BY <3>2, <3>3
    <2>3. /\ clientState' \in [Peers -> ClientStates]
          /\ offers' \in [Peers -> Seq(ListedOffer)]
      <3>1. /\ clientState \in [Peers -> ClientStates]
            /\ offers \in [Peers -> Seq(ListedOffer)]
        BY DEF ClientInv, ClientTypeOK
      <3>2. CASE UNCHANGED <<clientState, offers>>
        BY <3>1, <3>2
      <3>3. CASE /\ clientState' = [clientState EXCEPT ![p] = StateAfter(d.msg.command, @)]
                 /\ offers' = [offers EXCEPT ![p] = OffersAfter(p, d.msg)]
        BY <2>1, <2>2, <3>1, <3>3
      <3> QED
        BY <1>5, <3>2, <3>3 DEF HandleReceivedMessage
    <2> QED
      BY <1>0, <1>3, <1>5, <2>3 DEF HandleReceivedMessage, ClientInv, PeersBagsOK, ServerBagOK,
         ClientTypeOK
  <1> QED
    BY <1>1, <1>4, <1>5

LEMMA ClientInvStep == ClientInv /\ [Next]_vars => ClientInv'
  <1> SUFFICES ASSUME ClientInv, [Next]_vars PROVE ClientInv'
    OBVIOUS
  <1>1. ASSUME NEW p \in Peers, PeerIsSent(p) PROVE ClientInv'
    <2>1. PeersBagsOK'
      BY <1>1, PeerIsSentType DEF ClientInv, PeersBagsOK
    <2> QED
      BY <1>1, <2>1 DEF PeerIsSent, ClientInv, PeersBagsOK, ClientTypeOK, clientVars, threadVars
  <1>2. CASE UNCHANGED vars
    BY <1>2 DEF vars, netVars, clientVars, threadVars, ClientInv, ClientTypeOK
  <1> QED
    BY <1>1, <1>2, CommandType, TradeType, ReceiveType DEF Next

LEMMA ClientInvInit == Init => ClientInv
  <1> SUFFICES ASSUME Init PROVE ClientInv
    OBVIOUS
  <1>1. /\ IsABag(EmptyBag) /\ DOMAIN EmptyBag = {}
    BY DEF IsABag, EmptyBag, SetToBag
  <1>2. ClientTypeOK
    BY MaxRqAssumption DEF Init, ClientInit, ClientTypeOK, ClientStates
  <1> QED
    BY <1>1, <1>2 DEF Init, NetInit, ClientInv

LEMMA ClientInvAlways == Spec => []ClientInv
  BY ClientInvInit, ClientInvStep, PTL DEF Spec

(***************************************************************************)
(* Every variable of a client keeps its type, for any number of clients,   *)
(* items, prices, commands and messages, whoever sends them in whatever    *)
(* order: current_state_, inventory_, offers_, the counter, and what the   *)
(* clients send.                                                           *)
(***************************************************************************)
THEOREM ClientTypeCorrect == Spec => []TypeOK
  <1>1. ClientInv => TypeOK
    BY DEF ClientInv, TypeOK
  <1> QED
    BY <1>1, ClientInvAlways, PTL

-------------------------------------------------------------------------------
(***************************************************************************)
(* Budgets.  What a client sends of one kind (K) is paid for by what it is *)
(* sent of another kind (L): what is paid in and not yet spent is either   *)
(* still on its way or held by the client (y).                             *)
(***************************************************************************)
Budget(K, L, y) ==
    /\ IsFiniteSet(Among(toServer, K)) /\ IsFiniteSet(Among(toPeers, L))
    /\ IsFiniteSet(Among(heard, L))
    /\ Cardinality(Among(toServer, K)) + y + Cardinality(Among(toPeers, L))
         <= Cardinality(Among(heard, L))

LEMMA BudgetCounts ==
    ASSUME NEW K, NEW L, NEW y, Budget(K, L, y)
    PROVE  /\ Cardinality(Among(toServer, K)) \in Nat
           /\ Cardinality(Among(toPeers, L)) \in Nat
           /\ Cardinality(Among(heard, L)) \in Nat
  BY FS_CardinalityType DEF Budget

\* A step that neither sends nor receives.
LEMMA BudgetKept ==
    ASSUME NEW K, NEW L, NEW y \in Nat, NEW z \in Nat, Budget(K, L, y),
           UNCHANGED <<toServer, toPeers, heard>>, z <= y
    PROVE  Budget(K, L, z)'
  BY BudgetCounts DEF Budget

\* A step that sends what the client holds the means for.
LEMMA BudgetSpent ==
    ASSUME NEW K, NEW L, NEW y \in Nat, NEW z \in Nat, Budget(K, L, y), ServerBagOK,
           UNCHANGED <<toPeers, heard>>, NEW p, NEW m, Send(p, m),
           z + (IF [from |-> p, msg |-> m] \in K THEN 1 ELSE 0) <= y
    PROVE  Budget(K, L, z)'
  <1> DEFINE d == [from |-> p, msg |-> m]
             D == {d}
  <1>1. toServer' = toServer (+) SetToBag(D) /\ D = {d}
    BY DEF Send
  <1>2. IsABag(toServer) /\ IsFiniteSet(Among(toServer, K))
    BY DEF ServerBagOK, Budget
  <1>3. z + (IF d \in K THEN 1 ELSE 0) <= y
    OBVIOUS
  <1> HIDE DEF d, D
  <1>4. /\ IsFiniteSet(Among(toServer (+) SetToBag(D), K))
        /\ Cardinality(Among(toServer (+) SetToBag(D), K))
             = Cardinality(Among(toServer, K)) + (IF d \in K THEN 1 ELSE 0)
    BY <1>1, <1>2, OneMore
  <1>5. /\ Among(toServer, K)' = Among(toServer (+) SetToBag(D), K)
        /\ Among(toPeers, L)' = Among(toPeers, L) /\ Among(heard, L)' = Among(heard, L)
    BY <1>1 DEF Among, Copies
  <1> QED
    BY <1>3, <1>4, <1>5, BudgetCounts DEF Budget

\* A step that receives, and may send what needs no payment.
LEMMA BudgetEarned ==
    ASSUME NEW K, NEW L, NEW y \in Nat, NEW z \in Nat, Budget(K, L, y), ServerBagOK, PeersBagsOK,
           UNCHANGED heard, NEW d \in DOMAIN toPeers, Deliver(d), NEW p, NEW m,
           toServer' = toServer \/ (Send(p, m) /\ [from |-> p, msg |-> m] \notin K),
           z <= y + (IF d \in L THEN 1 ELSE 0)
    PROVE  Budget(K, L, z)'
  <1> DEFINE e == [from |-> p, msg |-> m]
             D == {d}
             E == {e}
  <1>1. /\ toPeers' = toPeers (-) SetToBag(D) /\ D = {d} /\ E = {e}
        /\ toServer' = toServer \/ (toServer' = toServer (+) SetToBag(E) /\ e \notin K)
    BY DEF Send, Deliver
  <1>2. /\ IsABag(toServer) /\ IsFiniteSet(Among(toServer, K))
        /\ IsABag(toPeers) /\ IsFiniteSet(Among(toPeers, L))
    BY DEF ServerBagOK, PeersBagsOK, Budget
  <1> HIDE DEF e, D, E
  <1>3. /\ IsFiniteSet(Among(toPeers (-) SetToBag(D), L))
        /\ Cardinality(Among(toPeers (-) SetToBag(D), L))
             = Cardinality(Among(toPeers, L)) - (IF d \in L THEN 1 ELSE 0)
    BY <1>1, <1>2, OneLess
  <1>4. Among(toPeers, L)' = Among(toPeers (-) SetToBag(D), L) /\ Among(heard, L)' = Among(heard, L)
    BY <1>1 DEF Among, Copies
  <1>5. /\ IsFiniteSet(Among(toServer, K)')
        /\ Cardinality(Among(toServer, K)') = Cardinality(Among(toServer, K))
    <2>1. CASE toServer' = toServer
      BY <1>2, <2>1 DEF Among, Copies
    <2>2. CASE toServer' = toServer (+) SetToBag(E) /\ e \notin K
      <3>1. /\ IsFiniteSet(Among(toServer (+) SetToBag(E), K))
            /\ Cardinality(Among(toServer (+) SetToBag(E), K))
                 = Cardinality(Among(toServer, K)) + (IF e \in K THEN 1 ELSE 0)
        BY <1>1, <1>2, OneMore
      <3>2. Among(toServer, K)' = Among(toServer (+) SetToBag(E), K)
        BY <2>2 DEF Among, Copies
      <3> QED
        BY <2>2, <3>1, <3>2, BudgetCounts
    <2> QED
      BY <1>1, <2>1, <2>2
  <1> QED
    BY <1>3, <1>4, <1>5, BudgetCounts DEF Budget

\* A step of the environment pays in.
LEMMA BudgetPaid ==
    ASSUME NEW K, NEW L, NEW y \in Nat, NEW z \in Nat, Budget(K, L, y), PeersBagsOK,
           NEW p, PeerIsSent(p), z <= y
    PROVE  Budget(K, L, z)'
  <1>1. PICK m \in Inputs :
          /\ toPeers' = toPeers (+) SetToBag({[to |-> p, msg |-> m]})
          /\ heard' = heard (+) SetToBag({[to |-> p, msg |-> m]})
          /\ toServer' = toServer
    BY DEF PeerIsSent
  <1> DEFINE d == [to |-> p, msg |-> m]
             D == {d}
  <1>2. toPeers' = toPeers (+) SetToBag(D) /\ heard' = heard (+) SetToBag(D) /\ D = {d}
    BY <1>1
  <1>3. /\ IsABag(toPeers) /\ IsFiniteSet(Among(toPeers, L))
        /\ IsABag(heard) /\ IsFiniteSet(Among(heard, L))
    BY DEF PeersBagsOK, Budget
  <1> HIDE DEF d, D
  <1>4. /\ IsFiniteSet(Among(toPeers (+) SetToBag(D), L))
        /\ Cardinality(Among(toPeers (+) SetToBag(D), L))
             = Cardinality(Among(toPeers, L)) + (IF d \in L THEN 1 ELSE 0)
    BY <1>2, <1>3, OneMore
  <1>5. /\ IsFiniteSet(Among(heard (+) SetToBag(D), L))
        /\ Cardinality(Among(heard (+) SetToBag(D), L))
             = Cardinality(Among(heard, L)) + (IF d \in L THEN 1 ELSE 0)
    BY <1>2, <1>3, OneMore
  <1>6. /\ Among(toPeers, L)' = Among(toPeers (+) SetToBag(D), L)
        /\ Among(heard, L)' = Among(heard (+) SetToBag(D), L)
        /\ Among(toServer, K)' = Among(toServer, K)
    BY <1>1, <1>2 DEF Among, Copies
  <1> QED
    BY <1>4, <1>5, <1>6, BudgetCounts DEF Budget

LEMMA BudgetInit ==
    ASSUME NEW K, NEW L, Init
    PROVE  Budget(K, L, 0)
  <1>1. /\ Among(toServer, K) = {} /\ Among(toPeers, L) = {} /\ Among(heard, L) = {}
    BY DEF Init, NetInit, EmptyBag, SetToBag, Among, Copies
  <1> QED
    BY <1>1, FS_EmptySet DEF Budget

-------------------------------------------------------------------------------
(***************************************************************************)
(* Searches and departures.  A client holds the means for one of them when *)
(* it is REGISTERED and its command thread is not about to assign another  *)
(* state; that thread never assigns REGISTERED.                            *)
(***************************************************************************)
Requests == {"LOOKING_FOR", "DE_REGISTER"}
Grants == {"REGISTERED", "FOUND", "NOT_FOUND"}
RequestsOf(p) == {d \in Datagram : d.from = p /\ d.msg.command \in Requests}
GrantsTo(p) == {d \in Heard : d.to = p /\ d.msg.command \in Grants}
MayAsk(p) == IF clientState[p] = "REGISTERED" /\ assigning[p] = "none" THEN 1 ELSE 0
RequestInv ==
    \A p \in Peers : assigning[p] # "REGISTERED" /\ Budget(RequestsOf(p), GrantsTo(p), MayAsk(p))

LEMMA MayAskType == ASSUME NEW p PROVE MayAsk(p) \in Nat /\ MayAsk(p)' \in Nat
  BY DEF MayAsk

\* A command that sends and then assigns: it may ask only if it holds the means.
LEMMA RequestSent ==
    ASSUME ClientInv, RequestInv, NEW q \in Peers, NEW m \in ClientMessages,
           NEW state \in ClientStates \ {"REGISTERED"}, SendThenAssign(q, m, state),
           m.command \in Requests => clientState[q] = "REGISTERED", assigning[q] = "none",
           UNCHANGED <<clientState, heard>>
    PROVE  RequestInv'
  <1> SUFFICES ASSUME NEW p \in Peers
               PROVE  /\ assigning'[p] # "REGISTERED"
                      /\ Budget(RequestsOf(p), GrantsTo(p), MayAsk(p))'
    BY DEF RequestInv, Budget, RequestsOf, GrantsTo
  <1>1. /\ assigning \in [Peers -> ClientStates \cup {"none"}] /\ assigning[p] # "REGISTERED"
        /\ Budget(RequestsOf(p), GrantsTo(p), MayAsk(p)) /\ ServerBagOK
    BY DEF ClientInv, ClientTypeOK, RequestInv, ServerBagOK
  <1>2. CASE UNCHANGED <<toServer, assigning>>
    <2>1. MayAsk(p)' = MayAsk(p)
      BY <1>2 DEF MayAsk
    <2>2. UNCHANGED <<toServer, toPeers, heard>>
      BY <1>2 DEF SendThenAssign
    <2> QED
      BY <1>1, <1>2, <2>1, <2>2, BudgetKept, MayAskType
  <1>3. CASE Send(q, m) /\ assigning' = [assigning EXCEPT ![q] = state]
    <2>1. assigning'[p] # "REGISTERED"
      BY <1>1, <1>3
    <2>2. MayAsk(p)' + (IF [from |-> q, msg |-> m] \in RequestsOf(p) THEN 1 ELSE 0) <= MayAsk(p)
      <3>1. CASE p = q
        <4>1. MayAsk(p)' = 0
          BY <1>1, <1>3, <3>1 DEF MayAsk, ClientStates
        <4>2. [from |-> q, msg |-> m] \in RequestsOf(p) => MayAsk(p) = 1
          BY <3>1 DEF RequestsOf, MayAsk
        <4> QED
          BY <4>1, <4>2, MayAskType
      <3>2. CASE p # q
        <4>1. MayAsk(p)' = MayAsk(p)
          BY <1>1, <1>3, <3>2 DEF MayAsk
        <4>2. [from |-> q, msg |-> m] \notin RequestsOf(p)
          BY <3>2 DEF RequestsOf
        <4> QED
          BY <4>1, <4>2, MayAskType
      <3> QED
        BY <3>1, <3>2
    <2>3. UNCHANGED <<toPeers, heard>> /\ Send(q, m)
      BY <1>3 DEF SendThenAssign
    <2> QED
      BY <1>1, <2>1, <2>2, <2>3, BudgetSpent, MayAskType
  <1> QED
    BY <1>2, <1>3 DEF SendThenAssign

\* What leaves the bags alone, and gives nobody new means.
LEMMA RequestsKept ==
    ASSUME RequestInv, UNCHANGED <<toServer, toPeers, heard>>,
           \A p \in Peers : assigning'[p] # "REGISTERED" /\ MayAsk(p)' <= MayAsk(p)
    PROVE  RequestInv'
  <1> SUFFICES ASSUME NEW p \in Peers
               PROVE  Budget(RequestsOf(p), GrantsTo(p), MayAsk(p))'
    BY DEF RequestInv, Budget, RequestsOf, GrantsTo
  <1> QED
    BY BudgetKept, MayAskType DEF RequestInv

LEMMA RequestCommand ==
    ASSUME ClientInv, RequestInv, NEW q \in Peers, CommandThread(q), UNCHANGED heard
    PROVE  RequestInv'
  <1>0. /\ {"REGISTERING", "UNREGISTERED", "SEARCHING"} \subseteq ClientStates \ {"REGISTERED"}
        /\ \A p \in Peers : assigning[p] # "REGISTERED" /\ MayAsk(p) \in Nat
        /\ ClientTypeOK
    BY MayAskType DEF ClientStates, RequestInv, ClientInv
  <1>1. CASE RegisterWithServer(q)
    <2>1. RegisterMsg(q, nextRq[q]) \in ClientMessages
      BY <1>0, <1>1, NumberTaken, MessagesTyped DEF RegisterWithServer
    <2>2. RegisterMsg(q, nextRq[q]).command \notin Requests
      BY DEF RegisterMsg, Requests
    <2> QED
      BY <1>0, <1>1, <2>1, <2>2, RequestSent DEF RegisterWithServer, Runs
  <1>2. CASE Deregister(q)
    <2>1. DeregisterMsg(q, nextRq[q]) \in ClientMessages
      BY <1>0, <1>2, NumberTaken, MessagesTyped DEF Deregister
    <2> QED
      BY <1>0, <1>2, <2>1, RequestSent DEF Deregister, Runs
  <1>3. CASE SearchItem(q)
    <2>1. PICK i \in Items, max \in Prices :
            SendThenAssign(q, LookingForMsg(q, nextRq[q], i, max), "SEARCHING")
      BY <1>3 DEF SearchItem
    <2>2. LookingForMsg(q, nextRq[q], i, max) \in ClientMessages
      BY <1>0, <1>3, NumberTaken, MessagesTyped DEF SearchItem
    <2> QED
      BY <1>0, <1>3, <2>1, <2>2, RequestSent DEF SearchItem, Runs
  <1>4. CASE AssignState(q)
    <2>1. \A p \in Peers : assigning'[p] # "REGISTERED" /\ MayAsk(p)' <= MayAsk(p)
      BY <1>0, <1>4 DEF AssignState, MayAsk, ClientTypeOK
    <2> QED
      BY <1>4, <2>1, RequestsKept DEF AssignState, netVars
  <1>5. CASE Quit(q)
    <2>1. CASE /\ clientState[q] = "REGISTERED"
               /\ TakesNumber(q)
               /\ SendThenAssign(q, DeregisterMsg(q, nextRq[q]), "UNREGISTERED")
      <3>1. DeregisterMsg(q, nextRq[q]) \in ClientMessages
        BY <1>0, <2>1, NumberTaken, MessagesTyped
      <3> QED
        BY <1>0, <1>5, <2>1, <3>1, RequestSent DEF Quit, Runs
    <2>2. CASE UNCHANGED <<netVars, assigning, quitting, nextRq>>
      <3>1. \A p \in Peers : assigning'[p] # "REGISTERED" /\ MayAsk(p)' <= MayAsk(p)
        BY <1>0, <1>5, <2>2 DEF Quit, MayAsk
      <3> QED
        BY <2>2, <3>1, RequestsKept DEF netVars
    <2> QED
      BY <1>5, <2>1, <2>2 DEF Quit
  <1>6. CASE InputEnds(q) \/ AddItem(q) \/ RemoveItem(q)
    <2>1. UNCHANGED <<netVars, clientState, assigning>>
      BY <1>6 DEF InputEnds, AddItem, RemoveItem, threadVars
    <2>2. \A p \in Peers : assigning'[p] # "REGISTERED" /\ MayAsk(p)' <= MayAsk(p)
      BY <1>0, <2>1 DEF MayAsk
    <2> QED
      BY <2>1, <2>2, RequestsKept DEF netVars
  <1> QED
    BY <1>1, <1>2, <1>3, <1>4, <1>5, <1>6 DEF CommandThread

LEMMA RequestTrade ==
    ASSUME ClientInv, RequestInv, NEW q \in Peers, TradeCommand(q), UNCHANGED heard
    PROVE  RequestInv'
  <1>0. /\ ServerBagOK
        /\ \A r \in Rqs : FirstOffer(q, r) # 0 /\ offers' = Unlisted(q, r)
             => offers[q][FirstOffer(q, r)] \in ListedOffer
    BY OfferTaken DEF ClientInv, ServerBagOK
  <1>1. CASE NegotiateOffer(q)
    <2>1. PICK r \in Rqs, price \in Prices :
            LET o == offers[q][FirstOffer(q, r)] IN
            /\ FirstOffer(q, r) # 0
            /\ offers' = Unlisted(q, r)
            /\ SendThenAssign(q, TradeMsg("NEGOTIATE", q, r, o.name, price), "NEGOTIATING")
      BY <1>1 DEF NegotiateOffer
    <2> DEFINE m == TradeMsg("NEGOTIATE", q, r, offers[q][FirstOffer(q, r)].name, price)
    <2>2. offers[q][FirstOffer(q, r)].name \in Items
      BY <1>0, <2>1 DEF ListedOffer
    <2>3. m \in ClientMessages /\ m.command \notin Requests
      BY <2>2, MessagesTyped DEF TradeMsg, TradeCommands, Requests
    <2>4. SendThenAssign(q, m, "NEGOTIATING")
      BY <2>1
    <2> HIDE DEF m
    <2> QED
      BY <1>1, <2>3, <2>4, RequestSent DEF NegotiateOffer, Runs, ClientStates
  <1>2. ASSUME NEW command, NEW cmd \in {"ACCEPT", "REFUSE"}, AcceptOrRefuseOffer(q, command, cmd)
        PROVE  RequestInv'
    <2>1. PICK r \in Rqs :
            LET o == offers[q][FirstOffer(q, r)] IN
            Send(q, TradeMsg(cmd, q, r, o.name, o.price)) \/ UNCHANGED toServer
      BY <1>2 DEF AcceptOrRefuseOffer
    <2> DEFINE m == TradeMsg(cmd, q, r, offers[q][FirstOffer(q, r)].name,
                             offers[q][FirstOffer(q, r)].price)
    <2>2. UNCHANGED <<toPeers, clientState, assigning>>
      BY <1>2 DEF AcceptOrRefuseOffer, threadVars
    <2>3. \A p \in Peers : assigning'[p] # "REGISTERED" /\ MayAsk(p)' = MayAsk(p)
      BY <2>2 DEF MayAsk, RequestInv
    <2>4. CASE UNCHANGED toServer
      BY <2>2, <2>3, <2>4, RequestsKept, MayAskType
    <2>5. CASE Send(q, m)
      <3>1. \A p \in Peers : [from |-> q, msg |-> m] \notin RequestsOf(p)
        BY DEF TradeMsg, RequestsOf, Requests
      <3> HIDE DEF m
      <3>2. ASSUME NEW p \in Peers
            PROVE  Budget(RequestsOf(p), GrantsTo(p), MayAsk(p))'
        <4>1. Budget(RequestsOf(p), GrantsTo(p), MayAsk(p))
          BY DEF RequestInv
        <4> QED
          BY <1>0, <2>2, <2>3, <2>5, <3>1, <4>1, BudgetSpent, MayAskType
      <3> QED
        BY <2>3, <3>2 DEF RequestInv, Budget, RequestsOf, GrantsTo
    <2> QED
      BY <2>1, <2>4, <2>5
  <1> QED
    BY <1>1, <1>2 DEF TradeCommand

LEMMA RequestReceive ==
    ASSUME ClientInv, RequestInv, NEW q \in Peers, ReceiveThread(q), UNCHANGED heard
    PROVE  RequestInv'
  <1>1. PICK d \in DOMAIN toPeers : HandleSearchEvent(q, d) \/ HandleReceivedMessage(q, d)
    BY DEF ReceiveThread
  <1>2. /\ d \in Heard /\ ServerBagOK /\ PeersBagsOK /\ Deliver(d) /\ d.to = q
        /\ assigning' = assigning
        /\ clientState \in [Peers -> ClientStates]
    BY <1>1 DEF ClientInv, ClientTypeOK, ServerBagOK, PeersBagsOK, HandleSearchEvent,
       HandleReceivedMessage, clientVars, threadVars
  <1>3. \E m : toServer' = toServer \/ (Send(q, m) /\ m.command = "OFFER")
    BY <1>1 DEF HandleSearchEvent, HandleReceivedMessage, OfferMsg
  <1>4. PICK m : toServer' = toServer \/ (Send(q, m) /\ m.command = "OFFER")
    BY <1>3
  <1>5. ASSUME NEW p \in Peers
        PROVE  MayAsk(p)' <= MayAsk(p) + (IF d \in GrantsTo(p) THEN 1 ELSE 0)
    <2>1. CASE clientState'[p] = clientState[p]
      BY <1>2, <2>1 DEF MayAsk
    <2>2. CASE clientState'[p] # clientState[p]
      <3>1. /\ d.msg.command # "SEARCH" /\ p = q
            /\ clientState'[p] = StateAfter(d.msg.command, clientState[p])
        BY <1>1, <1>2, <2>2 DEF HandleSearchEvent, HandleReceivedMessage, clientVars, threadVars
      <3>2. clientState'[p] = "REGISTERED" => d.msg.command \in Grants
        BY <2>2, <3>1 DEF StateAfter, Grants
      <3> QED
        BY <1>2, <3>1, <3>2 DEF MayAsk, GrantsTo
    <2> QED
      BY <2>1, <2>2
  <1>6. \A p \in Peers : [from |-> q, msg |-> m] \in RequestsOf(p) => m.command # "OFFER"
    BY DEF RequestsOf, Requests
  <1>7. ASSUME NEW p \in Peers
        PROVE  Budget(RequestsOf(p), GrantsTo(p), MayAsk(p))'
    <2>1. Budget(RequestsOf(p), GrantsTo(p), MayAsk(p))
      BY DEF RequestInv
    <2>2. toServer' = toServer \/ (Send(q, m) /\ [from |-> q, msg |-> m] \notin RequestsOf(p))
      BY <1>4, <1>6
    <2> QED
      BY <1>2, <1>5, <2>1, <2>2, BudgetEarned, MayAskType
  <1> QED
    BY <1>2, <1>7 DEF RequestInv, Budget, RequestsOf, GrantsTo

LEMMA RequestStep == ClientInv /\ RequestInv /\ [Next]_vars => RequestInv'
  <1> SUFFICES ASSUME ClientInv, RequestInv, [Next]_vars PROVE RequestInv'
    OBVIOUS
  <1>1. ASSUME NEW q \in Peers, PeerIsSent(q) PROVE RequestInv'
    <2>1. UNCHANGED <<clientState, assigning>> /\ PeersBagsOK
      BY <1>1 DEF PeerIsSent, clientVars, threadVars, ClientInv, PeersBagsOK
    <2>2. ASSUME NEW p \in Peers
          PROVE  /\ assigning'[p] # "REGISTERED"
                 /\ Budget(RequestsOf(p), GrantsTo(p), MayAsk(p))'
      <3>1. Budget(RequestsOf(p), GrantsTo(p), MayAsk(p)) /\ assigning'[p] # "REGISTERED"
        BY <2>1 DEF RequestInv
      <3>2. MayAsk(p)' <= MayAsk(p)
        BY <2>1 DEF MayAsk
      <3> QED
        BY <1>1, <2>1, <3>1, <3>2, BudgetPaid, MayAskType
    <2> QED
      BY <2>2 DEF RequestInv, Budget, RequestsOf, GrantsTo
  <1>2. CASE UNCHANGED vars
    <2>1. UNCHANGED <<netVars, heard, clientState, assigning>>
      BY <1>2 DEF vars, clientVars, threadVars
    <2>2. \A p \in Peers : assigning'[p] # "REGISTERED" /\ MayAsk(p)' <= MayAsk(p)
      BY <2>1 DEF MayAsk, RequestInv
    <2> QED
      BY <2>1, <2>2, RequestsKept DEF netVars
  <1> QED
    BY <1>1, <1>2, RequestCommand, RequestTrade, RequestReceive DEF Next

LEMMA RequestInit == Init => RequestInv
  <1> SUFFICES ASSUME Init, NEW p \in Peers
               PROVE  assigning[p] # "REGISTERED" /\ Budget(RequestsOf(p), GrantsTo(p), MayAsk(p))
    BY DEF RequestInv
  <1>1. MayAsk(p) = 0 /\ assigning[p] = "none"
    BY DEF Init, ClientInit, MayAsk
  <1> QED
    BY <1>1, BudgetInit

(***************************************************************************)
(* A client never searches or leaves more often than it was told that it   *)
(* is registered or that its search is over, for any number of clients,    *)
(* whatever they are sent, however the receive thread cuts in between the  *)
(* check of a command and its assignment (searchItem, deregister, quit;    *)
(* current_state_ is neither locked nor atomic).                           *)
(***************************************************************************)
THEOREM RequestsWereAllowed == Spec => []RequestsAreAllowed
  <1>1. ASSUME ClientInv, RequestInv PROVE RequestsAreAllowed
    <2> SUFFICES ASSUME NEW p \in Peers
                 PROVE  Cardinality(SentBy(p, Requests)) <= Cardinality(HeardBy(p, Grants))
      BY DEF RequestsAreAllowed, Requests, Grants
    <2>1. /\ SentBy(p, Requests) = Among(toServer, RequestsOf(p))
          /\ HeardBy(p, Grants) = Among(heard, GrantsTo(p))
      <3>1. /\ DOMAIN toServer \subseteq Datagram /\ DOMAIN heard \subseteq Heard
        BY <1>1 DEF ClientInv
      <3> QED
        BY <3>1 DEF RequestsOf, GrantsTo, SentBy, HeardBy, Among, Copies
    <2>2. Budget(RequestsOf(p), GrantsTo(p), MayAsk(p))
      BY <1>1 DEF RequestInv
    <2> QED
      BY <2>1, <2>2, BudgetCounts, MayAskType DEF Budget
  <1> QED
    BY <1>1, ClientInvAlways, RequestInit, RequestStep, PTL DEF Spec

-------------------------------------------------------------------------------
(***************************************************************************)
(* Replies.  A client holds the means for a reply to each offer on its     *)
(* list.  An accept or a refusal is about the very offer taken off it; a   *)
(* counter-offer names another price, so that with it one can only count   *)
(* the offers for a request number.                                        *)
(***************************************************************************)
Pays(C, O) ==
    \/ C = {"ACCEPT", "REFUSE"}
    \/ C = TradeCommands /\ \E r \in Rqs : O = OffersFor(r)
RepliesOf(p, C, O) ==
    {d \in Datagram : d.from = p /\ d.msg.command \in C /\ Deal(d.msg) \in O}
OffersOf(p, O) == {d \in Heard : d.to = p /\ d.msg.command = "OFFER" /\ Deal(d.msg) \in O}
Holds(p, O) == Cardinality(Listed(offers[p], O))
Owes(p, C, O) == Budget(RepliesOf(p, C, O), OffersOf(p, O), Holds(p, O))
ReplyInv ==
    \A p \in Peers, C \in SUBSET TradeCommands, O \in SUBSET ListedOffer :
        Pays(C, O) => Owes(p, C, O)

LEMMA HoldsType ==
    ASSUME NEW p \in Peers, NEW O, offers \in [Peers -> Seq(ListedOffer)]
    PROVE  Holds(p, O) \in Nat
  BY ListedType DEF Holds

\* What leaves the lists alone, and sends nothing or no reply.
LEMMA RepliesKept ==
    ASSUME ClientInv, ReplyInv, UNCHANGED <<toPeers, heard, offers>>,
           NEW q, NEW m,
           toServer' = toServer \/ (Send(q, m) /\ m.command \notin TradeCommands)
    PROVE  ReplyInv'
  <1> SUFFICES ASSUME NEW p \in Peers, NEW C \in SUBSET TradeCommands,
                      NEW O \in SUBSET ListedOffer, Pays(C, O)
               PROVE  Owes(p, C, O)'
    BY DEF ReplyInv, Pays, OffersFor, TradeCommands, ListedOffer, Rqs
  <1>1. /\ Budget(RepliesOf(p, C, O), OffersOf(p, O), Holds(p, O))
        /\ Holds(p, O) \in Nat /\ Holds(p, O)' = Holds(p, O) /\ ServerBagOK
    BY HoldsType DEF ReplyInv, Owes, ClientInv, ClientTypeOK, ServerBagOK, Holds, Listed
  <1>2. CASE toServer' = toServer
    BY <1>1, <1>2, BudgetKept DEF Owes
  <1>3. CASE Send(q, m) /\ m.command \notin TradeCommands
    <2>1. [from |-> q, msg |-> m] \notin RepliesOf(p, C, O)
      BY <1>3 DEF RepliesOf
    <2>2. Holds(p, O)' + (IF [from |-> q, msg |-> m] \in RepliesOf(p, C, O) THEN 1 ELSE 0)
            <= Holds(p, O)
      BY <1>1, <2>1
    <2> QED
      BY <1>1, <1>3, <2>2, BudgetSpent DEF Owes
  <1> QED
    BY <1>2, <1>3

LEMMA ReplyCommand ==
    ASSUME ClientInv, ReplyInv, NEW q \in Peers, CommandThread(q), UNCHANGED heard
    PROVE  ReplyInv'
  <1>1. UNCHANGED <<toPeers, offers>>
    BY DEF CommandThread, RegisterWithServer, Deregister, SearchItem, AssignState, Quit, InputEnds,
       AddItem, RemoveItem, SendThenAssign, netVars
  <1>2. \E m : toServer' = toServer \/ (Send(q, m) /\ m.command \notin TradeCommands)
    <2>1. /\ RegisterMsg(q, nextRq[q]).command \notin TradeCommands
          /\ DeregisterMsg(q, nextRq[q]).command \notin TradeCommands
          /\ \A i, x : LookingForMsg(q, nextRq[q], i, x).command \notin TradeCommands
      BY DEF RegisterMsg, DeregisterMsg, LookingForMsg, TradeCommands
    <2> QED
      BY <2>1 DEF CommandThread, RegisterWithServer, Deregister, SearchItem, AssignState, Quit,
         InputEnds, AddItem, RemoveItem, SendThenAssign, netVars
  <1> QED
    BY <1>1, <1>2, RepliesKept

\* A reply to an offer that is taken off the list for it.
LEMMA ReplySent ==
    ASSUME ClientInv, ReplyInv, NEW q \in Peers, UNCHANGED <<toPeers, heard>>,
           NEW r \in Rqs, FirstOffer(q, r) # 0, offers' = Unlisted(q, r),
           NEW cmd \in TradeCommands, NEW price \in Prices,
           cmd = "NEGOTIATE" \/ price = offers[q][FirstOffer(q, r)].price,
           \/ Send(q, TradeMsg(cmd, q, r, offers[q][FirstOffer(q, r)].name, price))
           \/ UNCHANGED toServer
    PROVE  ReplyInv'
  <1> SUFFICES ASSUME NEW p \in Peers, NEW C \in SUBSET TradeCommands,
                      NEW O \in SUBSET ListedOffer, Pays(C, O)
               PROVE  Owes(p, C, O)'
    BY DEF ReplyInv, Pays, OffersFor, TradeCommands, ListedOffer, Rqs
  <1> DEFINE o == offers[q][FirstOffer(q, r)]
             m == TradeMsg(cmd, q, r, o.name, price)
             d == [from |-> q, msg |-> m]
  <1>1. /\ offers \in [Peers -> Seq(ListedOffer)] /\ offers' \in [Peers -> Seq(ListedOffer)]
        /\ o \in ListedOffer /\ o.rq = r
        /\ p # q => offers'[p] = offers[p]
        /\ p = q => Holds(p, O) = Holds(p, O)' + (IF o \in O THEN 1 ELSE 0)
    BY OfferTaken DEF ClientInv, ClientTypeOK, Holds
  <1>2. /\ Budget(RepliesOf(p, C, O), OffersOf(p, O), Holds(p, O)) /\ ServerBagOK
        /\ Holds(p, O) \in Nat
    BY <1>1, HoldsType DEF ReplyInv, Owes, ClientInv, ServerBagOK
  <1>3. Holds(p, O)' \in Nat
    BY <1>1, ListedType DEF Holds
  <1>4. d.from = q /\ d.msg = m /\ m.command = cmd /\ Deal(m) = [rq |-> r, name |-> o.name, price |-> price]
    BY DEF TradeMsg, Deal
  <1>5. Send(q, m) \/ UNCHANGED toServer
    OBVIOUS
  <1>6. cmd = "NEGOTIATE" \/ price = o.price
    OBVIOUS
  <1> HIDE DEF o, m
  <1>7. p = q /\ d \in RepliesOf(p, C, O) => o \in O
    <2> SUFFICES ASSUME cmd \in C, Deal(m) \in O PROVE o \in O
      BY <1>4 DEF RepliesOf
    <2>1. CASE C = {"ACCEPT", "REFUSE"}
      <3>1. Deal(m) = o
        BY <1>1, <1>4, <1>6, <2>1 DEF ListedOffer
      <3> QED
        BY <3>1
    <2>2. ASSUME NEW s \in Rqs, O = OffersFor(s) PROVE o \in O
      <3>1. Deal(m).rq = r
        BY <1>4
      <3>2. r = s
        BY <2>2, <3>1 DEF OffersFor
      <3> QED
        BY <1>1, <2>2, <3>2 DEF OffersFor, ListedOffer
    <2> QED
      BY <2>1, <2>2 DEF Pays
  <1>8. p # q => d \notin RepliesOf(p, C, O)
    BY <1>4 DEF RepliesOf
  <1>9. p # q => Holds(p, O)' = Holds(p, O)
    BY <1>1 DEF Holds
  <1>10. Holds(p, O)' + (IF d \in RepliesOf(p, C, O) THEN 1 ELSE 0) <= Holds(p, O)
    BY <1>1, <1>2, <1>3, <1>7, <1>8, <1>9
  <1>11. CASE Send(q, m)
    BY <1>2, <1>3, <1>10, <1>11, BudgetSpent DEF Owes
  <1>12. CASE UNCHANGED toServer
    BY <1>2, <1>3, <1>10, <1>12, BudgetKept DEF Owes
  <1> QED
    BY <1>5, <1>11, <1>12

LEMMA ReplyTrade ==
    ASSUME ClientInv, ReplyInv, NEW q \in Peers, TradeCommand(q), UNCHANGED heard
    PROVE  ReplyInv'
  <1>1. CASE NegotiateOffer(q)
    <2>1. PICK r \in Rqs, price \in Prices :
            LET o == offers[q][FirstOffer(q, r)] IN
            /\ FirstOffer(q, r) # 0
            /\ offers' = Unlisted(q, r)
            /\ SendThenAssign(q, TradeMsg("NEGOTIATE", q, r, o.name, price), "NEGOTIATING")
      BY <1>1 DEF NegotiateOffer
    <2> QED
      BY <2>1, ReplySent DEF SendThenAssign, TradeCommands
  <1>2. ASSUME NEW command, NEW cmd \in {"ACCEPT", "REFUSE"}, AcceptOrRefuseOffer(q, command, cmd)
        PROVE  ReplyInv'
    <2>1. PICK r \in Rqs :
            LET o == offers[q][FirstOffer(q, r)] IN
            /\ FirstOffer(q, r) # 0
            /\ offers' = Unlisted(q, r)
            /\ Send(q, TradeMsg(cmd, q, r, o.name, o.price)) \/ UNCHANGED toServer
      BY <1>2 DEF AcceptOrRefuseOffer
    <2>2. UNCHANGED toPeers
      BY <1>2 DEF AcceptOrRefuseOffer
    <2>3. offers[q][FirstOffer(q, r)].price \in Prices
      BY <2>1, OfferTaken DEF ListedOffer
    <2> QED
      BY <2>1, <2>2, <2>3, ReplySent DEF TradeCommands
  <1> QED
    BY <1>1, <1>2 DEF TradeCommand

LEMMA ReplyReceive ==
    ASSUME ClientInv, ReplyInv, NEW q \in Peers, ReceiveThread(q), UNCHANGED heard
    PROVE  ReplyInv'
  <1>1. PICK d \in DOMAIN toPeers : HandleSearchEvent(q, d) \/ HandleReceivedMessage(q, d)
    BY DEF ReceiveThread
  <1>2. /\ d \in Heard /\ ServerBagOK /\ PeersBagsOK /\ Deliver(d) /\ d.to = q
        /\ offers \in [Peers -> Seq(ListedOffer)]
    BY <1>1 DEF ClientInv, ClientTypeOK, ServerBagOK, PeersBagsOK, HandleSearchEvent,
       HandleReceivedMessage
  <1>3. \E m : toServer' = toServer \/ (Send(q, m) /\ m.command = "OFFER")
    BY <1>1 DEF HandleSearchEvent, HandleReceivedMessage, OfferMsg
  <1>4. PICK m : toServer' = toServer \/ (Send(q, m) /\ m.command = "OFFER")
    BY <1>3
  <1>5. ASSUME NEW p \in Peers, NEW O \in SUBSET ListedOffer
        PROVE  /\ Holds(p, O)' \in Nat
               /\ Holds(p, O)' <= Holds(p, O) + (IF d \in OffersOf(p, O) THEN 1 ELSE 0)
    <2>0. offers[p] \in Seq(ListedOffer) /\ Holds(p, O) \in Nat
      BY <1>2, HoldsType
    <2>1. CASE offers'[p] = offers[p]
      BY <2>0, <2>1 DEF Holds
    <2>2. CASE offers'[p] # offers[p]
      <3> DEFINE o == [rq |-> d.msg.rq, name |-> d.msg.item_name, price |-> d.msg.price]
      <3>1. /\ offers' = [offers EXCEPT ![q] = OffersAfter(q, d.msg)] /\ p = q
        BY <1>1, <1>2, <2>2 DEF HandleSearchEvent, HandleReceivedMessage, clientVars
      <3>2. d.msg.command = "OFFER" /\ offers'[p] = Append(offers[p], o)
        BY <1>2, <2>2, <3>1, InputFields DEF OffersAfter
      <3>3. o \in ListedOffer /\ o = Deal(d.msg)
        BY <1>2, <3>2, InputFields DEF ListedOffer, Deal
      <3>4. d \in OffersOf(p, O) <=> o \in O
        BY <1>2, <3>1, <3>2, <3>3 DEF OffersOf
      <3> HIDE DEF o
      <3>5. Holds(p, O)' = Holds(p, O) + (IF o \in O THEN 1 ELSE 0)
        BY <2>0, <3>2, <3>3, ListedAppended DEF Holds
      <3> QED
        BY <2>0, <3>4, <3>5
    <2> QED
      BY <2>1, <2>2
  <1>6. ASSUME NEW p \in Peers, NEW C \in SUBSET TradeCommands,
               NEW O \in SUBSET ListedOffer, Pays(C, O)
        PROVE  Owes(p, C, O)'
    <2>1. Budget(RepliesOf(p, C, O), OffersOf(p, O), Holds(p, O)) /\ Holds(p, O) \in Nat
      BY <1>2, <1>6, HoldsType DEF ReplyInv, Owes
    <2>2. m.command = "OFFER" => [from |-> q, msg |-> m] \notin RepliesOf(p, C, O)
      BY DEF RepliesOf, TradeCommands
    <2> QED
      BY <1>2, <1>4, <1>5, <2>1, <2>2, BudgetEarned DEF Owes
  <1> QED
    BY <1>6 DEF ReplyInv, Pays, OffersFor, TradeCommands, ListedOffer, Rqs

LEMMA ReplyStep == ClientInv /\ ReplyInv /\ [Next]_vars => ReplyInv'
  <1> SUFFICES ASSUME ClientInv, ReplyInv, [Next]_vars PROVE ReplyInv'
    OBVIOUS
  <1>1. ASSUME NEW q \in Peers, PeerIsSent(q) PROVE ReplyInv'
    <2>1. offers' = offers /\ PeersBagsOK /\ offers \in [Peers -> Seq(ListedOffer)]
      BY <1>1 DEF PeerIsSent, clientVars, ClientInv, ClientTypeOK, PeersBagsOK
    <2>2. ASSUME NEW p \in Peers, NEW C \in SUBSET TradeCommands,
                 NEW O \in SUBSET ListedOffer, Pays(C, O)
          PROVE  Owes(p, C, O)'
      <3>1. Budget(RepliesOf(p, C, O), OffersOf(p, O), Holds(p, O)) /\ Holds(p, O) \in Nat
        BY <2>1, <2>2, HoldsType DEF ReplyInv, Owes
      <3>2. Holds(p, O)' = Holds(p, O)
        BY <2>1 DEF Holds
      <3> QED
        BY <1>1, <2>1, <3>1, <3>2, BudgetPaid DEF Owes
    <2> QED
      BY <2>2 DEF ReplyInv, Pays, OffersFor, TradeCommands, ListedOffer, Rqs
  <1>2. CASE UNCHANGED vars
    <2>1. UNCHANGED <<toServer, toPeers, heard, offers>>
      BY <1>2 DEF vars, netVars, clientVars
    <2> QED
      BY <2>1, RepliesKept
  <1> QED
    BY <1>1, <1>2, ReplyCommand, ReplyTrade, ReplyReceive DEF Next

LEMMA ReplyInit == Init => ReplyInv
  <1> SUFFICES ASSUME Init, NEW p \in Peers, NEW C, NEW O
               PROVE  Owes(p, C, O)
    BY DEF ReplyInv
  <1>1. Listed(offers[p], O) = {}
    BY DEF Init, ClientInit, Listed
  <1>2. Holds(p, O) = 0
    BY <1>1, FS_EmptySet DEF Holds
  <1> QED
    BY <1>2, BudgetInit DEF Owes

(***************************************************************************)
(* A client never replies to an offer more often than it got it, nor to a  *)
(* request number, for any number of clients and whatever they are sent    *)
(* (acceptOffer, refuseOffer and negotiateOffer take the first offer with  *)
(* the number off the list, which handleOfferEvent appends to).            *)
(***************************************************************************)
THEOREM RepliesWereMade == Spec => []RepliesWereOffered
  <1>1. ASSUME ClientInv, ReplyInv, NEW p \in Peers, NEW C \in SUBSET TradeCommands,
               NEW O \in SUBSET ListedOffer, Pays(C, O)
        PROVE  Cardinality(Replies(p, C, O)) <= Cardinality(OffersTo(p, O))
    <2>1. DOMAIN toServer \subseteq Datagram /\ DOMAIN heard \subseteq Heard
      BY <1>1 DEF ClientInv
    <2>2. Replies(p, C, O) = Among(toServer, RepliesOf(p, C, O))
      BY <2>1 DEF Replies, SentBy, RepliesOf, Among, Copies
    <2>3. OffersTo(p, O) = Among(heard, OffersOf(p, O))
      BY <2>1 DEF OffersTo, HeardBy, OffersOf, Among, Copies
    <2>4. Budget(RepliesOf(p, C, O), OffersOf(p, O), Holds(p, O)) /\ Holds(p, O) \in Nat
      BY <1>1, HoldsType DEF ReplyInv, Owes, ClientInv, ClientTypeOK
    <2> QED
      BY <2>2, <2>3, <2>4, BudgetCounts DEF Budget
  <1>2. ASSUME ClientInv, ReplyInv PROVE RepliesWereOffered
    <2>1. ASSUME NEW p \in Peers, NEW o \in ListedOffer
          PROVE  Cardinality(Replies(p, {"ACCEPT", "REFUSE"}, {o})) <= Cardinality(OffersTo(p, {o}))
      BY <1>1, <1>2 DEF Pays, TradeCommands
    <2>2. ASSUME NEW p \in Peers, NEW r \in Rqs
          PROVE  Cardinality(Replies(p, TradeCommands, OffersFor(r)))
                   <= Cardinality(OffersTo(p, OffersFor(r)))
      <3>1. OffersFor(r) \in SUBSET ListedOffer
        BY DEF OffersFor, ListedOffer
      <3> QED
        BY <1>1, <1>2, <3>1 DEF Pays
    <2> QED
      BY <2>1, <2>2 DEF RepliesWereOffered
  <1> QED
    BY <1>2, ClientInvAlways, ReplyInit, ReplyStep, PTL DEF Spec
===============================================================================
