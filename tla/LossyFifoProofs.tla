---- MODULE LossyFifoProofs ----
(* The contract of LossyFifo keeps its order and bounds its losses.             *)
EXTENDS LossyFifo, TLAPS

\* Appending to a sequence: the old elements stay and the new one is last.
LEMMA AppendFacts ==
    ASSUME NEW S, NEW s \in Seq(S), NEW e \in S
    PROVE  /\ Append(s, e) \in Seq(S)
           /\ Len(Append(s, e)) = Len(s) + 1
           /\ Append(s, e) # <<>>
           /\ DOMAIN s = 1 .. Len(s)
           /\ DOMAIN Append(s, e) = 1 .. Len(s) + 1
           /\ \A i \in 1 .. Len(s) : Append(s, e)[i] = s[i]
           /\ Append(s, e)[Len(s) + 1] = e
           /\ s = <<>> <=> Len(s) = 0
    OBVIOUS

\* The length and the elements of a sequence.
LEMMA ElementFacts ==
    ASSUME NEW S, NEW s \in Seq(S)
    PROVE  /\ Len(s) \in Nat
           /\ DOMAIN s = 1 .. Len(s)
           /\ \A i \in 1 .. Len(s) : s[i] \in S
           /\ s # <<>> <=> Len(s) > 0
    OBVIOUS

\* What a delivery consists of.
LEMMA DeliveryFacts ==
    /\ \A e \in Delivery : e.id \in Nat \ {0} /\ e.conn \in Nat \ {0}
    /\ \A i, k \in Nat \ {0} : [id |-> i, conn |-> k] \in Delivery
    BY DEF Delivery

\* The contract starts with an empty history.
LEMMA InitInv == Init => Inv
<1> SUFFICES ASSUME Init PROVE Inv
    OBVIOUS
<1>1. delivered = <<>> /\ <<>> \in Seq(Delivery)
    BY DEF Init
<1>2. DOMAIN delivered = {}
    BY <1>1
<1>3. TypeOK /\ (up => epoch > 0)
  <2>1. up \in BOOLEAN /\ ~up
      BY Zenon DEF Init
  <2>2. accepted \in Nat /\ taken \in 0 .. accepted /\ epoch \in Nat
      BY DEF Init
  <2> QED
      BY <1>1, <2>1, <2>2, Zenon DEF TypeOK
<1>4. InOrder /\ OneLossPerConnection /\ AtMostTaken
    BY <1>1, <1>2 DEF InOrder, OneLossPerConnection, AtMostTaken
<1>5. LossSoFar
    BY <1>1 DEF Init, LossSoFar
<1> QED
    BY <1>3, <1>4, <1>5 DEF Inv

\* Delivery is the only step that lengthens the history.
LEMMA DeliverInv == Inv /\ Deliver => Inv'
<1> SUFFICES ASSUME Inv, Deliver PROVE Inv'
    OBVIOUS
<1> USE DEF Inv, TypeOK
<1> DEFINE e == [id |-> taken + 1, conn |-> epoch]
           n == Len(delivered)
<1>1. /\ up /\ taken < accepted /\ epoch > 0
      /\ taken' = taken + 1 /\ delivered' = Append(delivered, e)
      /\ accepted' = accepted /\ up' = up /\ epoch' = epoch
      /\ accepted \in Nat /\ taken \in Nat /\ epoch \in Nat
    BY DEF Deliver
<1>2. e \in Delivery
    BY <1>1, DeliveryFacts
<1> HIDE DEF e
<1>3. e.id = taken + 1 /\ e.conn = epoch
    BY DEF e
<1>4. /\ delivered' \in Seq(Delivery)
      /\ delivered' # <<>>
      /\ n \in Nat
      /\ Len(delivered') = n + 1
      /\ DOMAIN delivered = 1 .. n
      /\ DOMAIN delivered' = 1 .. n + 1
      /\ \A i \in 1 .. n : delivered'[i] = delivered[i]
      /\ delivered'[n + 1] = e
      /\ delivered = <<>> <=> n = 0
    BY <1>1, <1>2, AppendFacts
<1>5. \A i \in 1 .. n : /\ delivered[i].id \in Nat \ {0} /\ delivered[i].conn \in Nat \ {0}
                        /\ delivered[i].id <= taken /\ delivered[i].conn <= epoch
    BY <1>4, ElementFacts, DeliveryFacts DEF AtMostTaken
<1>6. TypeOK'
    BY <1>1, <1>4
<1>7. InOrder'
  <2> SUFFICES ASSUME NEW i \in 1 .. n + 1, NEW j \in 1 .. n + 1, i < j
               PROVE  /\ delivered'[i].id < delivered'[j].id
                      /\ delivered'[i].conn <= delivered'[j].conn
      BY <1>4 DEF InOrder
  <2>1. CASE j \in 1 .. n
    <3>1. i \in 1 .. n
        BY <2>1
    <3> QED
        BY <2>1, <3>1, <1>4 DEF InOrder
  <2>2. CASE j = n + 1
      BY <2>2, <1>1, <1>3, <1>4, <1>5
  <2> QED
      BY <2>1, <2>2, <1>4
<1>8. OneLossPerConnection'
  <2>1. delivered'[1].id <= delivered'[1].conn
    <3>1. CASE n = 0
        BY <3>1, <1>1, <1>3, <1>4 DEF LossSoFar
    <3>2. CASE n # 0
        BY <3>2, <1>4 DEF OneLossPerConnection
    <3> QED
        BY <3>1, <3>2
  <2>2. ASSUME NEW i \in 1 .. n + 1, i + 1 \in 1 .. n + 1
        PROVE  delivered'[i + 1].id - delivered'[i].id
                  <= 1 + delivered'[i + 1].conn - delivered'[i].conn
    <3>1. CASE i + 1 \in 1 .. n
      <4>1. i \in 1 .. n
          BY <3>1
      <4> QED
          BY <3>1, <4>1, <1>4 DEF OneLossPerConnection
    <3>2. CASE i = n
      <4>1. n \in 1 .. n /\ n # 0
          BY <3>2, <2>2, <1>4
      <4>2. delivered'[i].id = delivered[n].id /\ delivered'[i].conn = delivered[n].conn
          BY <4>1, <3>2, <1>4
      <4>3. delivered'[i + 1].id = taken + 1 /\ delivered'[i + 1].conn = epoch
          BY <3>2, <1>3, <1>4
      <4>4. taken - delivered[n].id <= epoch - delivered[n].conn
          BY <4>1, <1>1, <1>4 DEF LossSoFar
      <4>5. delivered[n].id \in Nat /\ delivered[n].conn \in Nat
          BY <4>1, <1>5
      <4> QED
          BY <4>2, <4>3, <4>4, <4>5, <1>1
    <3>3. i + 1 \in 1 .. n \/ i = n
      <4>1. n \in Nat
          BY <1>4
      <4> HIDE DEF n
      <4> QED
          BY <4>1, <2>2
    <3> QED
        BY <3>1, <3>2, <3>3
  <2> QED
      BY <2>1, <2>2, <1>4 DEF OneLossPerConnection
<1>9. AtMostTaken'
  <2> SUFFICES ASSUME NEW i \in 1 .. n + 1
               PROVE  delivered'[i].id <= taken' /\ delivered'[i].conn <= epoch'
      BY <1>4 DEF AtMostTaken
  <2>1. CASE i \in 1 .. n
      BY <2>1, <1>1, <1>4, <1>5
  <2>2. CASE i = n + 1
      BY <2>2, <1>1, <1>3, <1>4
  <2> QED
      BY <2>1, <2>2, <1>4
<1>10. LossSoFar'
    BY <1>1, <1>3, <1>4 DEF LossSoFar
<1> QED
    BY <1>1, <1>6, <1>7, <1>8, <1>9, <1>10

\* The other steps leave the history alone and move the counts.
LEMMA OtherStepsInv == Inv /\ (Accept \/ Lose \/ Break \/ Connect) => Inv'
<1> SUFFICES ASSUME Inv, Accept \/ Lose \/ Break \/ Connect PROVE Inv'
    OBVIOUS
<1> USE DEF Inv
<1>1. delivered' = delivered /\ delivered \in Seq(Delivery)
    BY DEF TypeOK, Accept, Lose, Break, Connect
<1>2. TypeOK' /\ (up' => epoch' > 0)
  <2>1. up' \in BOOLEAN
      BY Zenon DEF TypeOK, Accept, Lose, Break, Connect
  <2>2. /\ accepted' \in Nat /\ taken' \in 0 .. accepted' /\ epoch' \in Nat
        /\ up' => epoch' > 0
      BY DEF TypeOK, Accept, Lose, Break, Connect
  <2> QED
      BY <1>1, <2>1, <2>2, Zenon DEF TypeOK
<1>3. InOrder' /\ OneLossPerConnection'
    BY <1>1 DEF InOrder, OneLossPerConnection
<1>4. \A i \in DOMAIN delivered : delivered[i].id \in Nat /\ delivered[i].conn \in Nat
    BY <1>1, ElementFacts, DeliveryFacts
<1>5. taken <= taken' /\ epoch <= epoch' /\ taken \in Nat /\ taken' \in Nat
      /\ epoch \in Nat /\ epoch' \in Nat
    BY DEF TypeOK, Accept, Lose, Break, Connect
<1>6. AtMostTaken'
    BY <1>1, <1>4, <1>5 DEF AtMostTaken
<1>7. LossSoFar'
  <2>1. delivered # <<>> => Len(delivered) \in DOMAIN delivered
      BY <1>1, ElementFacts
  <2>2. delivered # <<>> => /\ delivered[Len(delivered)].id \in Nat
                            /\ delivered[Len(delivered)].conn \in Nat
      BY <1>4, <2>1
  <2>3. CASE Accept
      BY <2>3 DEF Accept, LossSoFar
  <2>4. CASE Lose
      BY <2>2, <2>4, <1>5 DEF Lose, LossSoFar
  <2>5. CASE Break
      BY <2>2, <2>5, <1>5 DEF Break, LossSoFar
  <2>6. CASE Connect
      BY <2>2, <2>6, <1>5 DEF Connect, LossSoFar
  <2> QED
      BY <2>3, <2>4, <2>5, <2>6
<1> QED
    BY <1>2, <1>3, <1>6, <1>7

\* The inductive invariant of the contract.
THEOREM ContractInv == Spec => []Inv
<1>1. Inv /\ [Next]_vars => Inv'
  <2> SUFFICES ASSUME Inv, [Next]_vars PROVE Inv'
      OBVIOUS
  <2>1. CASE Next
      BY <2>1, DeliverInv, OtherStepsInv DEF Next
  <2>2. CASE UNCHANGED vars
      BY <2>2 DEF vars, Inv, TypeOK, InOrder, OneLossPerConnection, AtMostTaken, LossSoFar
  <2> QED
      BY <2>1, <2>2
<1> QED
    BY InitInv, <1>1, PTL DEF Spec

\* Whatever implements the contract delivers in order and loses at most one
\* envelope for each connection that ends.
THEOREM ContractKept == Spec => [](InOrder /\ OneLossPerConnection)
<1>1. Inv => InOrder /\ OneLossPerConnection
    BY DEF Inv
<1> QED
    BY ContractInv, <1>1, PTL
====
