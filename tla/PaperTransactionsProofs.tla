---------------------- MODULE PaperTransactionsProofs ----------------------
(* Proofs about PaperTransactions, for any number of transactions and orders *)
(* and for both databases.                                                   *)
EXTENDS PaperTransactions, CollectionFacts

-----------------------------------------------------------------------------
(* The order a transaction works at is one it has still to do. *)

\* Min yields it.
LEMMA MinMember ==
  ASSUME NEW S \in SUBSET Nat, S # {}
  PROVE  Min(S) \in S
  BY LeastMember, Zenon DEF Min

-----------------------------------------------------------------------------
(* The inductive invariant. *)

Word    == {"", "suggested", "pending", "filled", "rejected", "cancelled",
            "expired", "deleted"}
PosRow  == [id : Nat, qty : Int]
PlanRow == [kind : {"none", "order", "book"}, to : Word, add : Nat, cash : Int,
            pos : PosRow]
TxRow   == [op : Ops \cup {"none"}, todo : SUBSET Orders, q : Nat, plan : PlanRow,
            noted : BOOLEAN, stale : BOOLEAN, locks : SUBSET (Orders \cup {Account}),
            cash : Int, pos : PosRow, seenId : Nat, to : [Orders -> Word],
            add : [Orders -> Nat]]

\* Only an approved order executes, or one that the same operation approves.
Allowed(op, word, o) ==
  word \in {"pending", "filled"} => o \in approved \/ (op = "approve" /\ word = "pending")

PlanSound(op, plan, o) == Allowed(op, plan.to, o) /\ (plan.add > 0 => o \in approved)

\* What a transaction has left to do, has planned and has written.
RowSound(r) ==
  /\ r.op \in {"fill", "batch"} => r.todo \subseteq approved
  /\ \A o \in Orders : Allowed(r.op, r.to[o], o) /\ (r.add[o] > 0 => o \in approved)
  /\ r.plan.kind # "none" => r.todo # {} /\ PlanSound(r.op, r.plan, Min(r.todo))

IInv == /\ TypeOK /\ ApprovalCommitted
        /\ tx \in [Txs -> TxRow]
        /\ \A t \in Txs : RowSound(tx[t])

LEMMA CurrentType ==
  ASSUME NEW S \in SUBSET Orders, S # {}
  PROVE  Min(S) \in S
  <1>1. S \subseteq Nat
    BY TransactionsAssumption, SMT DEF Orders
  <1>2. QED
    BY <1>1, MinMember

\* A step that changes one transaction only.
LEMMA OneTransaction ==
  ASSUME IInv, NEW t \in Txs, NEW r \in TxRow, RowSound(r),
         tx' = [tx EXCEPT ![t] = r], UNCHANGED committed
  PROVE  IInv'
  <1>1. tx' \in [Txs -> TxRow] /\ tx'[t] = r /\ \A u \in Txs : u # t => tx'[u] = tx[u]
    BY Zenon DEF IInv
  <1>2. UNCHANGED <<status, fills, cash, position, lastId, approved>>
    BY DEF committed
  <1>3. \A u \in Txs : RowSound(tx[u])
    BY DEF IInv
  <1>4. RowSound(r)' /\ \A u \in Txs : RowSound(tx[u]) /\ u # t => RowSound(tx[u])'
    <2>1. RowSound(r)'
      BY <1>2 DEF RowSound, PlanSound, Allowed
    <2>2. ASSUME NEW u \in Txs, RowSound(tx[u]), u # t PROVE RowSound(tx[u])'
      BY <1>1, <1>2, <2>2 DEF RowSound, PlanSound, Allowed
    <2>3. QED
      BY <2>1, <2>2
  <1>5. \A u \in Txs : RowSound(tx[u])'
    <2>1. RowSound(tx[t])'
      BY <1>1, <1>2 DEF RowSound, PlanSound, Allowed
    <2>2. QED
      BY <1>3, <1>4, <2>1
  <1>6. TypeOK'
    <2>1. \A u \in Txs : tx'[u].op \in Ops \cup {"none"} /\ tx'[u].todo \subseteq Orders
      BY <1>1 DEF TxRow
    <2>2. QED
      BY <1>2, <2>1, Zenon DEF TypeOK, IInv
  <1>7. ApprovalCommitted'
    BY <1>2 DEF ApprovalCommitted, IInv
  <1>8. QED
    BY <1>1, <1>5, <1>6, <1>7 DEF IInv

LEMMA NoPlanType == NoPlan \in PlanRow /\ NoPlan.kind = "none" /\ NoPlan.add = 0
  BY DEF NoPlan, PlanRow, PosRow, Word

\* A transaction that has planned and written nothing.
LEMMA FreshSound ==
  ASSUME NEW r, r.plan.kind = "none", \A o \in Orders : r.to[o] = "" /\ ~(r.add[o] > 0),
         r.op \in {"fill", "batch"} => r.todo \subseteq approved
  PROVE  RowSound(r)
  <1>1. \A o \in Orders : Allowed(r.op, r.to[o], o)
    BY DEF Allowed
  <1>2. QED
    BY <1>1, Zenon DEF RowSound

\* What is sound stays so as long as no approval is taken back.
LEMMA SoundGrows ==
  ASSUME NEW r, RowSound(r), approved \subseteq approved'
  PROVE  RowSound(r)'
  <1>1. \A op, word, o : Allowed(op, word, o) => Allowed(op, word, o)'
    BY DEF Allowed
  <1>2. \A op, plan, o : PlanSound(op, plan, o) => PlanSound(op, plan, o)'
    BY <1>1, Zenon DEF PlanSound
  <1>3. QED
    BY <1>1, <1>2, Zenon DEF RowSound

LEMMA ClosedFields ==
  /\ Closed.plan = NoPlan /\ Closed.todo = {}
  /\ \A o \in Orders : Closed.to[o] = "" /\ ~(Closed.add[o] > 0)
  BY DEF Closed

LEMMA ClosedSound == Closed \in TxRow /\ RowSound(Closed)
  <1>1. Closed \in TxRow
    <2>1. [o \in Orders |-> ""] \in [Orders -> Word] /\ [o \in Orders |-> 0] \in [Orders -> Nat]
      BY DEF Word
    <2> DEFINE words == [o \in Orders |-> ""]
               sums  == [o \in Orders |-> 0]
    <2> HIDE DEF words, sums
    <2>2. Closed = [op |-> "none", todo |-> {}, q |-> 0, plan |-> NoPlan, noted |-> FALSE,
                    stale |-> FALSE, locks |-> {}, cash |-> 0,
                    pos |-> [id |-> 0, qty |-> 0], seenId |-> 0, to |-> words,
                    add |-> sums]
      BY DEF Closed, words, sums
    <2>3. NoPlan \in PlanRow /\ [id |-> 0, qty |-> 0] \in PosRow
      BY NoPlanType DEF PosRow
    <2>4. words \in [Orders -> Word] /\ sums \in [Orders -> Nat]
      BY <2>1 DEF words, sums
    <2>5. /\ "none" \in Ops \cup {"none"} /\ {} \in SUBSET Orders /\ 0 \in Nat /\ 0 \in Int
          /\ {} \in SUBSET (Orders \cup {Account}) /\ FALSE \in BOOLEAN
      OBVIOUS
    <2> HIDE DEF NoPlan
    <2>6. QED
      BY <2>2, <2>3, <2>4, <2>5, Zenon DEF TxRow
  <1>2. RowSound(Closed)
    BY ClosedFields, NoPlanType, FreshSound
  <1>3. QED
    BY <1>1, <1>2

-----------------------------------------------------------------------------
(* Every step keeps it. *)

LEMMA BeginStep ==
  ASSUME IInv, NEW t \in Txs, NEW op \in Ops, NEW S \in SUBSET Orders, NEW q \in Nat,
         Begin(t, op, S, q)
  PROVE  IInv'
  <1> DEFINE r == [Closed EXCEPT !.op = op, !.todo = S, !.q = q]
  <1>1. tx' = [tx EXCEPT ![t] = r] /\ UNCHANGED committed
    BY DEF Begin
  <1>2. /\ r \in TxRow /\ r.op = op /\ r.todo = S /\ r.plan = NoPlan
        /\ \A o \in Orders : r.to[o] = "" /\ ~(r.add[o] > 0)
    <2>1. /\ r \in TxRow /\ r.op = op /\ r.todo = S /\ r.plan = Closed.plan
          /\ r.to = Closed.to /\ r.add = Closed.add
      BY ClosedSound, Zenon DEF TxRow
    <2> HIDE DEF r
    <2>2. QED
      BY <2>1, ClosedFields
  <1> HIDE DEF r
  <1>3. op \in {"fill", "batch"} => S \subseteq approved
    <2>1. \A o \in S : status[o] \in Permitted(op)
      BY DEF Begin
    <2>2. op \in {"fill", "batch"} => Permitted(op) = {"pending"}
      BY DEF Permitted
    <2>3. QED
      BY <2>1, <2>2 DEF IInv, ApprovalCommitted
  <1>4. RowSound(r)
    BY <1>2, <1>3, NoPlanType, FreshSound, Zenon
  <1>5. QED
    BY <1>1, <1>2, <1>4, OneTransaction

LEMMA SaveNoteStep ==
  ASSUME IInv, NEW t \in Txs, SaveNote(t)
  PROVE  IInv'
  <1> DEFINE c == Current(t)
             r == [tx[t] EXCEPT !.noted = TRUE, !.locks = @ \cup {c}, !.to[c] = "pending"]
  <1>1. tx[t] \in TxRow /\ RowSound(tx[t])
    BY DEF IInv
  <1>2. tx' = [tx EXCEPT ![t] = r] /\ UNCHANGED committed
    BY DEF SaveNote, IInv
  <1>3. c \in tx[t].todo /\ c \in Orders
    BY <1>1, CurrentType DEF SaveNote, Current, TxRow
  <1>4. /\ r \in TxRow
        /\ r.op = tx[t].op /\ r.todo = tx[t].todo /\ r.plan = tx[t].plan
        /\ r.to = [tx[t].to EXCEPT ![c] = "pending"] /\ r.add = tx[t].add
    BY <1>1, <1>3, Zenon DEF TxRow, Word
  <1> HIDE DEF r, c
  <1>5. c \in approved
    BY <1>1, <1>3 DEF RowSound, SaveNote
  <1>6. RowSound(r)
    BY <1>1, <1>4, <1>5, SMT DEF RowSound, Allowed, TxRow
  <1>7. QED
    BY <1>2, <1>4, <1>6, OneTransaction

\* Every plan for an order is one of the table's words, and only the order's
\* own approval, or an approval that has committed, lets it execute.
LEMMA PlansSound ==
  ASSUME IInv, NEW t \in Txs, Open(t), tx[t].todo # {}, NEW plan \in Plans(t, Current(t))
  PROVE  /\ plan \in PlanRow /\ plan.kind # "none"
         /\ PlanSound(tx[t].op, plan, Current(t))
  <1> DEFINE c == Current(t)
             op == tx[t].op
  <1>1. tx[t] \in TxRow /\ RowSound(tx[t])
    BY DEF IInv
  <1>2. c \in tx[t].todo /\ c \in Orders
    BY <1>1, CurrentType DEF Current, TxRow
  <1>3. op \in {"fill", "batch"} => c \in approved
    BY <1>1, <1>2 DEF RowSound
  <1>4. \A word \in Word : /\ Write(word) \in PlanRow /\ Write(word).kind = "order"
                           /\ Write(word).to = word /\ Write(word).add = 0
    <2> SUFFICES ASSUME NEW word \in Word
                 PROVE  /\ Write(word) \in PlanRow /\ Write(word).kind = "order"
                        /\ Write(word).to = word /\ Write(word).add = 0
      OBVIOUS
    <2>1. "order" \in {"none", "order", "book"}
      OBVIOUS
    <2>2. QED
      BY <2>1, NoPlanType, Zenon DEF Write, PlanRow
  <1>p. plan \in Plans(t, c)
    OBVIOUS
  <1>w. "rejected" \in Word /\ "pending" \in Word /\ "cancelled" \in Word
        /\ "deleted" \in Word /\ "filled" \in Word /\ "expired" \in Word
    BY DEF Word
  <1> HIDE DEF c
  <1>5. ASSUME NEW word \in Word, Allowed(op, word, c), plan = Write(word)
        PROVE  plan \in PlanRow /\ plan.kind # "none" /\ PlanSound(op, plan, c)
    BY <1>4, <1>5 DEF PlanSound
  <1>6. CASE op = "approve"
    <2>1. plan \in {Write("rejected"), Write("pending")}
      BY <1>6, <1>p, Zenon DEF Plans, SubmitPlans
    <2>2. Allowed(op, "rejected", c) /\ Allowed(op, "pending", c)
      BY <1>6 DEF Allowed
    <2>3. QED
      BY <1>5, <1>w, <2>1, <2>2 DEF c
  <1>7. CASE op \in {"reject", "cancel", "delete"}
    <2>1. plan \in {Write("rejected"), Write("cancelled"), Write("deleted")}
      BY <1>7, <1>p DEF Plans
    <2>2. Allowed(op, "rejected", c) /\ Allowed(op, "cancelled", c) /\ Allowed(op, "deleted", c)
      BY <1>7 DEF Allowed
    <2>3. QED
      BY <1>5, <1>w, <2>1, <2>2 DEF c
  <1>8. CASE op \in {"fill", "batch"}
    <2> DEFINE n == IF tx[t].q = 0 THEN Remaining(t, c) ELSE tx[t].q
    <2>r. Remaining(t, c) \in Int
      BY <1>1, <1>2, TransactionsAssumption DEF Remaining, FillsSeen, IInv, TypeOK, TxRow
    <2>1. \/ plan \in {Write("rejected"), Write("filled"), Write("pending"), Write("expired")}
          \/ Remaining(t, c) > 0 /\ plan = Book(t, c, n)
      <3>1. plan \in FillPlans(t, c) \/ plan = Write("expired")
        BY <1>8, <1>p DEF Plans
      <3>2. CASE plan \in FillPlans(t, c)
        <4>1. FillPlans(t, c) \subseteq
                {Write("rejected"), Write("filled"), Write("pending")} \cup
                (IF Remaining(t, c) <= 0 THEN {} ELSE {Book(t, c, n)})
          BY Zenon DEF FillPlans
        <4>2. QED
          BY <2>r, <3>2, <4>1
      <3>3. QED
        BY <3>1, <3>2
    <2>2. CASE Remaining(t, c) > 0 /\ plan = Book(t, c, n)
      <3> DEFINE signed == IF Side[c] = "buy" THEN n ELSE -n
                 to == IF n = Remaining(t, c) THEN "filled" ELSE "pending"
                 pos == [PosSeen(t) EXCEPT !.qty = @ + signed]
      <3>1. n \in Nat /\ signed \in Int
        BY <1>1, <2>2, <2>r DEF TxRow
      <3>2. to \in Word
        BY <1>w
      <3>3. CashSeen(t) - signed \in Int
        BY <1>1, <3>1 DEF CashSeen, IInv, TypeOK, TxRow
      <3>4. pos \in PosRow
        BY <1>1, <3>1 DEF PosSeen, IInv, TypeOK, TxRow, PosRow
      <3>5. plan = [kind |-> "book", add |-> n, to |-> to, cash |-> CashSeen(t) - signed,
                    pos |-> pos]
        BY <2>2, Zenon DEF Book
      <3> HIDE DEF n, signed, to, pos
      <3>6. plan \in PlanRow /\ plan.kind # "none"
        BY <3>1, <3>2, <3>3, <3>4, <3>5 DEF PlanRow
      <3>7. PlanSound(op, plan, c)
        BY <1>3, <1>8 DEF PlanSound, Allowed
      <3>8. QED
        BY <3>6, <3>7 DEF c
    <2>3. CASE plan \in {Write("rejected"), Write("filled"), Write("pending"), Write("expired")}
      <3>1. \A word : Allowed(op, word, c)
        BY <1>3, <1>8 DEF Allowed
      <3>2. QED
        BY <1>5, <1>w, <2>3, <3>1 DEF c
    <2>4. QED
      BY <2>1, <2>2, <2>3
  <1>9. QED
    BY <1>1, <1>6, <1>7, <1>8 DEF Open, TxRow, Ops

LEMMA DecideStep ==
  ASSUME IInv, NEW t \in Txs, Decide(t)
  PROVE  IInv'
  <1>1. PICK plan \in Plans(t, Current(t)) : tx' = [tx EXCEPT ![t].plan = plan]
    BY DEF Decide
  <1> DEFINE r == [tx[t] EXCEPT !.plan = plan]
  <1>2. tx[t] \in TxRow /\ RowSound(tx[t])
    BY DEF IInv
  <1>3. plan \in PlanRow /\ plan.kind # "none" /\ PlanSound(tx[t].op, plan, Current(t))
    BY PlansSound DEF Decide
  <1>4. tx' = [tx EXCEPT ![t] = r] /\ UNCHANGED committed
    BY <1>1 DEF Decide, IInv
  <1>5. /\ r \in TxRow /\ r.op = tx[t].op /\ r.todo = tx[t].todo /\ r.plan = plan
        /\ r.to = tx[t].to /\ r.add = tx[t].add
    BY <1>2, <1>3, Zenon DEF TxRow
  <1> HIDE DEF r
  <1>6. RowSound(r)
    BY <1>2, <1>3, <1>5, Zenon DEF RowSound, Current, Decide
  <1>7. QED
    BY <1>4, <1>5, <1>6, OneTransaction

LEMMA WriteAccountStep ==
  ASSUME IInv, NEW t \in Txs, WriteAccount(t)
  PROVE  IInv'
  <1> DEFINE plan == tx[t].plan
             seen == IF Account \in tx[t].locks THEN tx[t].seenId ELSE plan.pos.id
             r == [tx[t] EXCEPT !.plan.kind = "order", !.locks = @ \cup {Account},
                                !.cash = plan.cash, !.pos = plan.pos, !.seenId = seen]
  <1>1. tx[t] \in TxRow /\ RowSound(tx[t])
    BY DEF IInv
  <1>2. plan \in PlanRow /\ seen \in Nat /\ plan.cash \in Int /\ plan.pos \in PosRow
    BY <1>1 DEF TxRow, PlanRow, PosRow
  <1>3. tx' = [tx EXCEPT ![t] = r] /\ UNCHANGED committed
    BY DEF WriteAccount, IInv
  <1>4. [plan EXCEPT !.kind = "order"] \in PlanRow
    <2>1. "order" \in {"none", "order", "book"}
      OBVIOUS
    <2>2. QED
      BY <1>2, <2>1, Zenon DEF PlanRow
  <1> HIDE DEF seen, plan
  <1>5. /\ r \in TxRow /\ r.op = tx[t].op /\ r.todo = tx[t].todo
        /\ r.plan = [tx[t].plan EXCEPT !.kind = "order"]
        /\ r.to = tx[t].to /\ r.add = tx[t].add
    BY <1>1, <1>2, <1>4, Zenon DEF TxRow, plan
  <1> HIDE DEF r
  <1>6. r.plan.to = tx[t].plan.to /\ r.plan.add = tx[t].plan.add
    BY <1>2, <1>5, Zenon DEF plan, PlanRow
  <1>7. tx[t].plan.kind # "none"
    BY DEF WriteAccount
  <1>8. RowSound(r)
    BY <1>1, <1>5, <1>6, <1>7, Zenon DEF RowSound, PlanSound
  <1>9. QED
    BY <1>3, <1>5, <1>8, OneTransaction

LEMMA WriteOrderStep ==
  ASSUME IInv, NEW t \in Txs, WriteOrder(t)
  PROVE  IInv'
  <1> DEFINE o == Current(t)
             plan == tx[t].plan
             sum == tx[t].add[o] + plan.add
             r == [tx[t] EXCEPT !.plan = NoPlan, !.noted = FALSE, !.todo = @ \ {o},
                                !.locks = @ \cup {o}, !.to[o] = plan.to, !.add[o] = sum]
  <1>1. tx[t] \in TxRow /\ RowSound(tx[t])
    BY DEF IInv
  <1>2. plan.kind # "none"
    BY DEF WriteOrder
  <1>3. tx[t].todo # {} /\ PlanSound(tx[t].op, plan, o)
    BY <1>1, <1>2 DEF RowSound, Current
  <1>4. o \in tx[t].todo /\ o \in Orders
    BY <1>1, <1>3, CurrentType DEF Current, TxRow
  <1>5. plan.to \in Word /\ plan.add \in Nat /\ sum \in Nat
    BY <1>1, <1>4 DEF TxRow, PlanRow
  <1>6. tx' = [tx EXCEPT ![t] = r] /\ UNCHANGED committed
    BY Zenon DEF WriteOrder
  <1>7. sum > 0 => tx[t].add[o] > 0 \/ plan.add > 0
    BY <1>1, <1>4, <1>5 DEF TxRow
  <1> HIDE DEF o, plan, sum
  <1>8. /\ r \in TxRow /\ r.op = tx[t].op /\ r.todo = tx[t].todo \ {o} /\ r.plan = NoPlan
        /\ r.to = [tx[t].to EXCEPT ![o] = plan.to]
        /\ r.add = [tx[t].add EXCEPT ![o] = sum]
    BY <1>1, <1>4, <1>5, NoPlanType, ZenonT(60) DEF TxRow
  <1> HIDE DEF r
  <1>9. RowSound(r)
    <2>1. r.plan.kind = "none"
      BY <1>8, NoPlanType
    <2>2. r.op \in {"fill", "batch"} => r.todo \subseteq approved
      BY <1>1, <1>8 DEF RowSound
    <2>3. ASSUME NEW x \in Orders
          PROVE  Allowed(r.op, r.to[x], x) /\ (r.add[x] > 0 => x \in approved)
      <3>1. Allowed(tx[t].op, tx[t].to[x], x) /\ (tx[t].add[x] > 0 => x \in approved)
        BY <1>1 DEF RowSound
      <3>2. CASE x = o
        <4>1. r.to[x] = plan.to /\ r.add[x] = sum
          BY <1>1, <1>4, <1>8, <3>2, Zenon DEF TxRow
        <4>2. QED
          BY <1>3, <1>7, <1>8, <3>1, <3>2, <4>1, Zenon DEF PlanSound
      <3>3. CASE x # o
        <4>1. r.to[x] = tx[t].to[x] /\ r.add[x] = tx[t].add[x]
          BY <1>1, <1>4, <1>8, <3>3, Zenon DEF TxRow
        <4>2. QED
          BY <1>8, <3>1, <4>1, Zenon
      <3>4. QED
        BY <3>2, <3>3
    <2>4. QED
      BY <2>1, <2>2, <2>3, Zenon DEF RowSound
  <1>10. QED
    BY <1>6, <1>8, <1>9, OneTransaction

LEMMA AbortStep ==
  ASSUME IInv, NEW t \in Txs, Abort(t)
  PROVE  IInv'
  BY ClosedSound, OneTransaction DEF Abort

LEMMA CommitStep ==
  ASSUME IInv, NEW t \in Txs, Commit(t)
  PROVE  IInv'
  <1> DEFINE mine == {o \in Orders : tx[t].to[o] # ""}
             booked == Account \in tx[t].locks
  <1>1. tx[t] \in TxRow /\ RowSound(tx[t])
    BY DEF IInv
  <1>2. approved \subseteq approved' /\ approved' \subseteq Orders
    BY DEF Commit, IInv, TypeOK
  <1>3. ASSUME NEW o \in Orders, tx[t].to[o] \in {"pending", "filled"}
        PROVE  o \in approved'
    <2>1. o \in approved \/ (tx[t].op = "approve" /\ tx[t].to[o] = "pending")
      BY <1>1, <1>3 DEF RowSound, Allowed
    <2>2. tx[t].to[o] # ""
      BY <1>3
    <2>3. QED
      BY <2>1, <2>2, Zenon DEF Commit
  <1>4. tx' \in [Txs -> TxRow] /\ \A u \in Txs : RowSound(tx[u])'
    <2>1. tx' = Overtaken(t)
      BY DEF Commit
    <2>2. ASSUME NEW u \in Txs
          PROVE  tx'[u] \in TxRow /\ RowSound(tx[u])'
      <3>1. PICK r \in TxRow : tx'[u] = r /\ RowSound(r)
        <4>1. CASE u = t
          BY <2>1, <4>1, ClosedSound, Zenon DEF Overtaken
        <4>2. CASE u # t
          <5> DEFINE stale == Open(u) /\ Isolation = "sqlite"
                     r == [tx[u] EXCEPT !.stale = stale]
          <5>1. tx'[u] = r
            BY <2>1, <4>2, Zenon DEF Overtaken
          <5>2. tx[u] \in TxRow /\ RowSound(tx[u]) /\ stale \in BOOLEAN
            BY DEF IInv
          <5> HIDE DEF stale
          <5>3. /\ r \in TxRow /\ r.op = tx[u].op /\ r.todo = tx[u].todo
                /\ r.plan = tx[u].plan /\ r.to = tx[u].to /\ r.add = tx[u].add
            BY <5>2, Zenon DEF TxRow
          <5> HIDE DEF r
          <5>4. RowSound(r)
            BY <5>2, <5>3, Zenon DEF RowSound
          <5>5. QED
            BY <5>1, <5>3, <5>4
        <4>3. QED
          BY <4>1, <4>2
      <3>2. RowSound(r)'
        BY <1>2, <3>1, SoundGrows
      <3>3. QED
        BY <3>1, <3>2, Zenon DEF RowSound
    <2>3. QED
      BY <2>1, <2>2, Zenon DEF Overtaken
  <1>5. ApprovalCommitted'
    <2>1. ASSUME NEW o \in Orders, status'[o] \in {"pending", "filled"}
          PROVE  o \in approved'
      <3>1. status'[o] = IF o \in mine THEN tx[t].to[o] ELSE status[o]
        BY Zenon DEF Commit
      <3>2. QED
        BY <1>2, <1>3, <2>1, <3>1 DEF IInv, ApprovalCommitted
    <2>2. ASSUME NEW o \in Orders, fills'[o] > 0
          PROVE  o \in approved'
      <3>1. fills'[o] = 0 \/ fills'[o] = fills[o] + tx[t].add[o]
        BY Zenon DEF Commit
      <3>2. fills[o] \in Nat /\ tx[t].add[o] \in Nat
        BY <1>1 DEF IInv, TypeOK, TxRow
      <3>3. fills[o] > 0 \/ tx[t].add[o] > 0
        BY <2>2, <3>1, <3>2
      <3>4. QED
        BY <1>1, <1>2, <3>3 DEF RowSound, IInv, ApprovalCommitted
    <2>3. QED
      BY <2>1, <2>2, Zenon DEF ApprovalCommitted
  <1>6. TypeOK'
    <2>1. status' \in [Orders -> Word \ {""}]
      <3>1. ASSUME NEW o \in Orders
            PROVE  (IF o \in mine THEN tx[t].to[o] ELSE status[o]) \in Word \ {""}
        BY <1>1 DEF IInv, TypeOK, Word, TxRow
      <3>2. status' = [o \in Orders |-> IF o \in mine THEN tx[t].to[o] ELSE status[o]]
        BY Zenon DEF Commit
      <3>3. QED
        BY <3>1, <3>2, Zenon
    <2>2. fills' \in [Orders -> Nat]
      <3>1. \A o \in Orders : fills[o] + tx[t].add[o] \in Nat /\ 0 \in Nat
        BY <1>1 DEF IInv, TypeOK, TxRow
      <3>2. fills' = [o \in Orders |->
                       IF o \in mine /\ tx[t].to[o] = "deleted" /\ Isolation = "postgres"
                         THEN 0 ELSE fills[o] + tx[t].add[o]]
        BY Zenon DEF Commit
      <3>3. QED
        BY <3>1, <3>2, Zenon
    <2>3. /\ cash' \in Int /\ position' \in [id : Nat, qty : Nat] /\ lastId' \in Nat
          /\ position'.id = 0 <=> position'.qty = 0
      <3>1. CASE booked
        <4>1. /\ cash' = tx[t].cash /\ position' = PositionAfter(t)
              /\ lastId' = IF position'.id > lastId THEN position'.id ELSE lastId
          BY <3>1, Zenon DEF Commit
        <4>2. /\ tx[t].cash \in Int /\ tx[t].pos.qty \in Int /\ tx[t].seenId \in Nat
              /\ lastId \in Nat /\ position \in [id : Nat, qty : Nat]
              /\ position.id = 0 <=> position.qty = 0
          BY <1>1 DEF IInv, TypeOK, TxRow, PosRow
        <4>3. /\ PositionAfter(t) \in [id : Nat, qty : Nat]
              /\ PositionAfter(t).id = 0 <=> PositionAfter(t).qty = 0
          BY <4>2 DEF PositionAfter
        <4>4. QED
          BY <4>1, <4>2, <4>3
      <3>2. CASE ~booked
        BY <3>2 DEF Commit, IInv, TypeOK
      <3>3. QED
        BY <3>1, <3>2
    <2>4. \A u \in Txs : tx'[u].op \in Ops \cup {"none"} /\ tx'[u].todo \subseteq Orders
      BY <1>4 DEF TxRow
    <2>5. Word \ {""} = {"suggested", "pending", "filled", "rejected", "cancelled",
                         "expired", "deleted"}
      BY DEF Word
    <2>6. QED
      BY <1>2, <2>1, <2>2, <2>3, <2>4, <2>5, Zenon DEF TypeOK
  <1>7. QED
    BY <1>4, <1>5, <1>6 DEF IInv

LEMMA InitStep == Init => IInv
  <1> SUFFICES ASSUME Init PROVE IInv
    OBVIOUS
  <1>1. tx \in [Txs -> TxRow] /\ \A t \in Txs : tx[t] = Closed
    BY ClosedSound, Zenon DEF Init
  <1>2. \A t \in Txs : tx[t].op \in Ops \cup {"none"} /\ tx[t].todo \subseteq Orders
    BY <1>1 DEF TxRow
  <1>3. TypeOK
    BY <1>2, TransactionsAssumption DEF TypeOK, Init
  <1>4. ApprovalCommitted
    BY DEF ApprovalCommitted, Init
  <1>5. QED
    BY <1>1, <1>3, <1>4, ClosedSound, Zenon DEF IInv

LEMMA NextStep == IInv /\ [Next]_vars => IInv'
  <1> SUFFICES ASSUME IInv, [Next]_vars PROVE IInv'
    OBVIOUS
  <1>1. CASE UNCHANGED vars
    BY <1>1 DEF vars, IInv, TypeOK, ApprovalCommitted, RowSound, PlanSound, Allowed
  <1>2. ASSUME NEW t \in Txs, NEW op \in Ops, NEW S \in SUBSET Orders, NEW q \in 0..1,
               Begin(t, op, S, IF op = "fill" THEN q ELSE 0)
        PROVE  IInv'
    <2>1. (IF op = "fill" THEN q ELSE 0) \in Nat
      OBVIOUS
    <2>2. QED
      BY <1>2, <2>1, BeginStep
  <1>3. ASSUME NEW t \in Txs,
               \/ SaveNote(t) \/ Decide(t) \/ WriteAccount(t) \/ WriteOrder(t)
               \/ Commit(t) \/ Abort(t)
        PROVE  IInv'
    BY <1>3, SaveNoteStep, DecideStep, WriteAccountStep, WriteOrderStep, CommitStep, AbortStep
  <1>4. QED
    BY <1>1, <1>2, <1>3, Zenon DEF Next

LEMMA Invariant == Spec => []IInv
  BY InitStep, NextStep, PTL DEF Spec

-----------------------------------------------------------------------------
(* Sums over the orders, as the order book takes them. *)

LEMMA OrdersFinite == IsFiniteSet(Orders)
  BY FS_Interval, TransactionsAssumption DEF Orders

\* SumFollows, of sums over the orders.
LEMMA OrderSumFollows ==
  ASSUME NEW a \in [Orders -> Int], NEW b \in [Orders -> Int], NEW o \in Orders, NEW n \in Int,
         b[o] = a[o] + n, \A x \in Orders \ {o} : b[x] = a[x],
         NEW F, NEW G, Sums(F, a, Orders), Sums(G, b, Orders)
  PROVE  F[Orders] \in Int /\ G[Orders] = F[Orders] + n
  <1>1. OneDiffers(a, b, o, n, Orders)
    BY Zenon DEF OneDiffers
  <1>2. QED
    BY <1>1, OrdersFinite, SumFollows

\* The sum the order book takes is this sum.
LEMMA BookSum ==
  ASSUME NEW a \in [Orders -> Int], \A o \in Orders : Book_!Added(o) = a[o],
         NEW F, Sums(F, a, Orders)
  PROVE  Book_!MapThenSumSet(Book_!Added, Orders) = F[Orders]
  <1> DEFINE Follows(I) ==
        I = [s \in SUBSET Orders |->
               IF s = {} THEN 0
               ELSE Book_!Added(CHOOSE x \in s : TRUE) + I[s \ {CHOOSE x \in s : TRUE}]]
  <1>1. ASSUME NEW I
        PROVE  Follows(I) <=> Sums(I, a, Orders)
    <2> DEFINE Term(s) == IF s = {} THEN 0
                          ELSE Book_!Added(CHOOSE x \in s : TRUE)
                                 + I[s \ {CHOOSE x \in s : TRUE}]
    <2>1. \A s \in SUBSET Orders : s # {} => Pick(s) \in Orders
      BY OrdersFinite, FirstElement
    <2>2. \A s \in SUBSET Orders : s # {} => Book_!Added(Pick(s)) = a[Pick(s)]
      BY <2>1
    <2>3. ASSUME NEW s \in SUBSET Orders
          PROVE  Term(s) = SumOf(s, a, I)
      <3>1. CASE s = {}
        BY <3>1 DEF SumOf
      <3>2. CASE s # {}
        <4>1. Term(s) = Book_!Added(Pick(s)) + I[s \ {Pick(s)}]
          BY <3>2, Zenon DEF Pick
        <4>2. QED
          BY <2>2, <3>2, <4>1, Zenon DEF SumOf
      <3>3. QED
        BY <3>1, <3>2
    <2>4. Follows(I) <=> I = [s \in SUBSET Orders |-> Term(s)]
      OBVIOUS
    <2> HIDE DEF Term
    <2>5. [s \in SUBSET Orders |-> Term(s)] = [s \in SUBSET Orders |-> SumOf(s, a, I)]
      BY <2>3
    <2> HIDE DEF Follows
    <2>6. QED
      BY <2>4, <2>5 DEF Sums
  <1>2. Book_!MapThenSumSet(Book_!Added, Orders) = (CHOOSE I : Follows(I))[Orders]
    BY DEF Book_!MapThenSumSet, Book_!MapThenFoldSet
  <1> HIDE DEF Follows
  <1>3. Follows(CHOOSE I : Follows(I))
    BY <1>1, Zenon
  <1>4. Sums((CHOOSE I : Follows(I)), a, Orders)
    BY <1>1, <1>3, Zenon
  <1>5. 1 \in Orders
    BY TransactionsAssumption DEF Orders
  <1>6. (CHOOSE I : Follows(I))[Orders] = F[Orders]
    <2>1. PICK G : G = (CHOOSE I : Follows(I))
      OBVIOUS
    <2>2. Sums(G, a, Orders)
      BY <2>1, <1>4
    <2>3. a[1] = a[1] + 0
      BY <1>5
    <2>4. F[Orders] \in Int /\ G[Orders] = F[Orders] + 0
      BY <1>5, <2>2, <2>3, OrderSumFollows
    <2>5. QED
      BY <2>1, <2>4
  <1>7. QED
    BY <1>2, <1>6

-----------------------------------------------------------------------------
(* On SQLite the transactions are a history of the order book.  A transaction *)
(* that has written is the only one that has and is not overtaken; one that   *)
(* is not overtaken has read what is still true, so that what it has planned  *)
(* and written is a step of the order book on the committed rows.             *)

Signed(o, n) == IF Side[o] = "buy" THEN n ELSE 0 - n

\* The shares each order adds to the position, and those of the plan at hand
\* that the account has and the order's row has not.
Shares(r) == [o \in Orders |-> Signed(o, r.add[o])]
Ahead(r) == IF r.plan.kind = "order" THEN Signed(Min(r.todo), r.plan.add) ELSE 0

RowCash(r) == IF Account \in r.locks THEN r.cash ELSE cash
RowPos(r)  == IF Account \in r.locks THEN r.pos ELSE position

\* An order may get this status and n more fills.
Fits(o, word, n) ==
  \/ word = status[o] /\ n = 0
  \/ status[o] = "suggested" /\ word \in {"pending", "rejected", "cancelled"} /\ n = 0
  \/ status[o] = "pending" /\ word \in {"rejected", "cancelled", "expired"} /\ n = 0
  \/ status[o] = "pending" /\ word = "pending" /\ fills[o] + n <= Qty[o] - 1
  \/ status[o] = "pending" /\ word = "filled" /\ fills[o] + n = Qty[o]
  \/ status[o] \in {"cancelled", "rejected"} /\ word = "deleted" /\ n = 0

Untouched(r, o) == r.to[o] = "" /\ r.add[o] = 0

RowsValid(r) ==
  /\ \A o \in Orders : IF r.to[o] = "" THEN r.add[o] = 0 ELSE Fits(o, r.to[o], r.add[o])
  /\ \A o \in r.todo : r.add[o] = 0 /\ status[o] \in Permitted(r.op)

PlanValid(r) == r.plan.kind # "none" => Fits(Min(r.todo), r.plan.to, r.plan.add)

AccountValid(r) ==
  /\ RowCash(r) >= 0 /\ RowPos(r).qty >= 0 /\ RowPos(r).id = position.id
  /\ Account \in r.locks => r.seenId = position.id
  /\ \A F : Sums(F, Shares(r), Orders) =>
       /\ RowCash(r) = cash - (F[Orders] + Ahead(r))
       /\ RowPos(r).qty = position.qty + (F[Orders] + Ahead(r))

BookingValid(r) ==
  r.plan.kind = "book" =>
    /\ r.plan.cash = RowCash(r) - Signed(Min(r.todo), r.plan.add) /\ r.plan.cash >= 0
    /\ r.plan.pos.qty = RowPos(r).qty + Signed(Min(r.todo), r.plan.add)
    /\ r.plan.pos.qty >= 0 /\ r.plan.pos.id = position.id

Valid(r) == RowsValid(r) /\ PlanValid(r) /\ AccountValid(r) /\ BookingValid(r)

\* A row on its own: what has written is not overtaken, and has written by the end.
RowSerial(r) ==
  /\ r.locks # {} => ~r.stale
  /\ r.op # "none" /\ r.todo = {} => r.locks # {}
  /\ r.op = "none" => r.locks = {} /\ r.plan.kind = "none"
  /\ r.op # "none" /\ ~r.stale => Valid(r)

OneWriter == \A t, u \in Txs : tx[t].locks # {} /\ tx[u].locks # {} => t = u

SInv == /\ OneWriter /\ \A t \in Txs : RowSerial(tx[t])
        /\ cash >= 0 /\ \A o \in Orders : fills[o] <= Qty[o]

LEMMA SerialStays ==
  ASSUME NEW r, RowSerial(r), UNCHANGED committed
  PROVE  RowSerial(r)'
  <1>1. UNCHANGED <<status, fills, cash, position>>
    BY DEF committed
  <1>2. \A o, word, n : Fits(o, word, n) => Fits(o, word, n)'
    BY <1>1 DEF Fits
  <1>3. RowCash(r)' = RowCash(r) /\ RowPos(r)' = RowPos(r)
    BY <1>1 DEF RowCash, RowPos
  <1>4. RowsValid(r) => RowsValid(r)'
    BY <1>1, <1>2, Zenon DEF RowsValid
  <1>5. PlanValid(r) => PlanValid(r)'
    BY <1>2, Zenon DEF PlanValid
  <1>6. AccountValid(r) => AccountValid(r)'
    BY <1>1, <1>3, Zenon DEF AccountValid
  <1>7. BookingValid(r) => BookingValid(r)'
    BY <1>1, <1>3, Zenon DEF BookingValid
  <1>8. QED
    BY <1>4, <1>5, <1>6, <1>7, Zenon DEF RowSerial, Valid

\* A step that changes one transaction only.
LEMMA OneSerial ==
  ASSUME IInv, SInv, NEW t \in Txs, NEW r, RowSerial(r),
         tx' = [tx EXCEPT ![t] = r], UNCHANGED committed,
         r.locks # {} => \A u \in Txs \ {t} : tx[u].locks = {}
  PROVE  SInv'
  <1>1. tx'[t] = r /\ \A u \in Txs : u # t => tx'[u] = tx[u]
    BY Zenon DEF IInv
  <1>2. OneWriter'
    <2>1. ASSUME NEW v \in Txs, NEW u \in Txs, tx'[v].locks # {}, tx'[u].locks # {}
          PROVE  v = u
      <3>1. tx[v].locks # {} /\ tx[u].locks # {} => v = u
        BY DEF SInv, OneWriter
      <3>2. (v = t \/ tx'[v] = tx[v]) /\ (u = t \/ tx'[u] = tx[u])
        BY <1>1
      <3>3. QED
        BY <1>1, <2>1, <3>1, <3>2, Zenon
    <2>2. QED
      BY <2>1, Zenon DEF OneWriter
  <1>3. ASSUME NEW u \in Txs
        PROVE  RowSerial(tx[u])'
    <2>1. PICK q : q = tx'[u]
      OBVIOUS
    <2>2. RowSerial(q)
      <3>1. CASE u = t
        BY <1>1, <2>1, <3>1
      <3>2. CASE u # t
        <4>1. RowSerial(tx[u]) /\ q = tx[u]
          BY <1>1, <2>1, <3>2, Zenon DEF SInv
        <4>2. QED
          BY <4>1
      <3>3. QED
        BY <3>1, <3>2
    <2>3. RowSerial(q)'
      BY <2>2, SerialStays
    <2>4. QED
      BY <2>1, <2>3, Zenon DEF RowSerial
  <1>4. UNCHANGED <<cash, fills>>
    BY DEF committed
  <1>5. QED
    BY <1>2, <1>3, <1>4 DEF SInv

LEMMA ClosedSerial == RowSerial(Closed)
  BY DEF RowSerial, Closed, NoPlan

\* A transaction that has planned and written nothing.
LEMMA FreshSerial ==
  ASSUME IInv, SInv, NEW r, r.op # "none", r.todo # {}, r.locks = {}, r.plan = NoPlan,
         \A o \in Orders : Untouched(r, o),
         \A o \in r.todo : o \in Orders /\ status[o] \in Permitted(r.op)
  PROVE  RowSerial(r)
  <1>1. RowsValid(r)
    BY Zenon DEF RowsValid, Untouched
  <1>2. r.plan.kind = "none"
    BY NoPlanType
  <1>3. RowCash(r) = cash /\ RowPos(r) = position
    BY DEF RowCash, RowPos
  <1>4. cash \in Int /\ cash >= 0 /\ position.qty \in Int /\ position.qty >= 0
    <2>1. cash \in Int /\ position \in [id : Nat, qty : Nat] /\ cash >= 0
      BY Zenon DEF IInv, TypeOK, SInv
    <2>2. QED
      BY <2>1
  <1>5. ASSUME NEW F, Sums(F, Shares(r), Orders)
        PROVE  F[Orders] = 0
    <2>1. \A o \in Orders : Shares(r)[o] = 0
      <3>1. \A o \in Orders : Signed(o, 0) = 0
        BY DEF Signed
      <3>2. QED
        BY <3>1, Zenon DEF Shares, Untouched
    <2>2. QED
      BY <1>5, <2>1, OrdersFinite, SumOfZeros
  <1>6. Ahead(r) = 0
    BY <1>2 DEF Ahead
  <1>7. AccountValid(r)
    <2>1. \A F : Sums(F, Shares(r), Orders) => /\ cash = cash - (F[Orders] + Ahead(r))
                                       /\ position.qty = position.qty + (F[Orders] + Ahead(r))
      BY <1>4, <1>5, <1>6
    <2>2. RowCash(r) >= 0 /\ RowPos(r).qty >= 0 /\ RowPos(r).id = position.id
          /\ (Account \in r.locks => r.seenId = position.id)
      BY <1>3, <1>4
    <2>3. QED
      BY <1>3, <2>1, <2>2, Zenon DEF AccountValid
  <1>8. QED
    BY <1>1, <1>2, <1>7 DEF RowSerial, Valid, PlanValid, BookingValid

LEMMA BeginSerial ==
  ASSUME IInv, SInv, NEW t \in Txs, NEW op \in Ops, NEW S \in SUBSET Orders, NEW q \in Nat,
         Begin(t, op, S, q)
  PROVE  SInv'
  <1> DEFINE r == [Closed EXCEPT !.op = op, !.todo = S, !.q = q]
  <1>1. tx' = [tx EXCEPT ![t] = r] /\ UNCHANGED committed
    BY DEF Begin
  <1>2. /\ r.op = op /\ r.todo = S /\ r.plan = NoPlan /\ r.locks = {}
        /\ \A o \in Orders : Untouched(r, o)
    BY DEF Closed, Untouched
  <1> HIDE DEF r
  <1>3. S # {} /\ \A o \in S : o \in Orders /\ status[o] \in Permitted(op)
    BY DEF Begin
  <1>4. op # "none"
    BY DEF Ops
  <1>5. RowSerial(r)
    BY <1>2, <1>3, <1>4, FreshSerial
  <1>6. QED
    BY <1>1, <1>2, <1>5, OneSerial

LEMMA AbortSerial ==
  ASSUME IInv, SInv, NEW t \in Txs, Abort(t)
  PROVE  SInv'
  <1>1. Closed.locks = {}
    BY DEF Closed
  <1>2. QED
    BY <1>1, ClosedSerial, OneSerial DEF Abort

\* What writes is not overtaken and has the database for itself.
LEMMA OnlyWriter ==
  ASSUME IInv, SInv, Isolation = "sqlite", NEW t \in Txs, NEW row, MayWrite(t, row)
  PROVE  /\ ~tx[t].stale /\ \A u \in Txs \ {t} : tx[u].locks = {}
         /\ tx[t] \in TxRow /\ RowSound(tx[t]) /\ RowSerial(tx[t])
         /\ tx[t].op # "none" => Valid(tx[t])
  BY DEF MayWrite, IInv, SInv, RowSerial

\* What has the same words, shares, account and plan is as valid.
LEMMA SameValid ==
  ASSUME NEW r, NEW s, Valid(r), s.op = r.op, s.todo = r.todo, s.plan = r.plan,
         Account \in s.locks <=> Account \in r.locks, s.cash = r.cash, s.pos = r.pos,
         s.seenId = r.seenId, s.add = r.add,
         \A o \in Orders : s.to[o] = r.to[o] \/ Fits(o, s.to[o], s.add[o])
  PROVE  Valid(s)
  <1>1. RowCash(s) = RowCash(r) /\ RowPos(s) = RowPos(r)
    BY DEF RowCash, RowPos
  <1>2. Shares(s) = Shares(r) /\ Ahead(s) = Ahead(r)
    BY Zenon DEF Shares, Ahead
  <1>3. RowsValid(s)
    <2>1. ASSUME NEW o \in Orders
          PROVE  IF s.to[o] = "" THEN s.add[o] = 0 ELSE Fits(o, s.to[o], s.add[o])
      <3>1. Fits(o, "", s.add[o]) => s.add[o] = 0
        BY Zenon DEF Fits
      <3>2. IF r.to[o] = "" THEN r.add[o] = 0 ELSE Fits(o, r.to[o], r.add[o])
        BY Zenon DEF Valid, RowsValid
      <3>3. QED
        BY <3>1, <3>2, Zenon
    <2>2. QED
      BY <2>1, Zenon DEF Valid, RowsValid
  <1>4. PlanValid(s)
    BY Zenon DEF Valid, PlanValid
  <1>5. AccountValid(s)
    BY <1>1, <1>2, Zenon DEF Valid, AccountValid
  <1>6. BookingValid(s)
    BY <1>1, Zenon DEF Valid, BookingValid
  <1>7. QED
    BY <1>3, <1>4, <1>5, <1>6 DEF Valid

LEMMA SaveNoteSerial ==
  ASSUME IInv, SInv, Isolation = "sqlite", NEW t \in Txs, SaveNote(t)
  PROVE  SInv'
  <1> DEFINE c == Current(t)
             r == [tx[t] EXCEPT !.noted = TRUE, !.locks = @ \cup {c}, !.to[c] = "pending"]
  <1>1. /\ ~tx[t].stale /\ \A u \in Txs \ {t} : tx[u].locks = {}
        /\ tx[t] \in TxRow /\ RowSound(tx[t]) /\ RowSerial(tx[t])
        /\ tx[t].op # "none" => Valid(tx[t])
    BY OnlyWriter DEF SaveNote
  <1>2. tx' = [tx EXCEPT ![t] = r] /\ UNCHANGED committed
    BY DEF SaveNote, IInv
  <1>3. c \in tx[t].todo /\ c \in Orders
    BY <1>1, CurrentType DEF SaveNote, Current, TxRow
  <1>4. tx[t].op = "batch" /\ Valid(tx[t])
    BY <1>1 DEF SaveNote
  <1>5. status[c] = "pending" /\ tx[t].add[c] = 0
    BY <1>3, <1>4 DEF Valid, RowsValid, Permitted
  <1> HIDE DEF c
  <1>6. /\ r.op = tx[t].op /\ r.todo = tx[t].todo /\ r.plan = tx[t].plan
        /\ r.to = [tx[t].to EXCEPT ![c] = "pending"] /\ r.add = tx[t].add
        /\ r.locks = tx[t].locks \cup {c} /\ r.cash = tx[t].cash /\ r.pos = tx[t].pos
        /\ r.seenId = tx[t].seenId /\ r.stale = tx[t].stale
    BY <1>1, Zenon DEF TxRow
  <1> HIDE DEF r
  <1>7. Account \in r.locks <=> Account \in tx[t].locks
    BY <1>3, <1>6, TransactionsAssumption DEF Account, Orders
  <1>8. \A o \in Orders : r.to[o] = tx[t].to[o] \/ Fits(o, r.to[o], r.add[o])
    BY <1>1, <1>5, <1>6 DEF TxRow, Fits
  <1>9. Valid(r)
    BY <1>4, <1>6, <1>7, <1>8, SameValid
  <1>10. RowSerial(r)
    BY <1>1, <1>3, <1>4, <1>6, <1>9 DEF RowSerial
  <1>11. QED
    BY <1>1, <1>2, <1>10, OneSerial

\* A plan for the order at hand is a step the order may take, and a booking is
\* covered by the account as the transaction sees it.
LEMMA PlansFit ==
  ASSUME IInv, SInv, NEW t \in Txs, Open(t), tx[t].todo # {}, Valid(tx[t]),
         NEW plan \in Plans(t, Current(t))
  PROVE  /\ Fits(Current(t), plan.to, plan.add)
         /\ \/ plan.kind = "order" /\ plan.add = 0
            \/ /\ plan.kind = "book"
               /\ plan.cash = RowCash(tx[t]) - Signed(Current(t), plan.add)
               /\ plan.cash >= 0
               /\ plan.pos.qty = RowPos(tx[t]).qty + Signed(Current(t), plan.add)
               /\ plan.pos.qty >= 0 /\ plan.pos.id = position.id
  <1> DEFINE op == tx[t].op
  <1>0. PICK c : c = Current(t)
    OBVIOUS
  <1>1. tx[t] \in TxRow
    BY DEF IInv
  <1>2. c \in tx[t].todo /\ c \in Orders
    BY <1>0, <1>1, CurrentType DEF Current, TxRow
  <1>3. tx[t].add[c] = 0 /\ status[c] \in Permitted(op)
    BY <1>2, Zenon DEF Valid, RowsValid
  <1>4. /\ fills[c] \in Nat /\ Qty[c] \in Nat \ {0} /\ fills[c] <= Qty[c]
        /\ Remaining(t, c) = Qty[c] - fills[c]
    <2>1. fills[c] \in Nat /\ Qty[c] \in Nat \ {0} /\ fills[c] <= Qty[c]
      BY <1>2, TransactionsAssumption, Zenon DEF IInv, TypeOK, SInv
    <2>2. Remaining(t, c) = Qty[c] - (fills[c] + 0)
      BY <1>3, Zenon DEF Remaining, FillsSeen
    <2>3. QED
      BY <2>1, <2>2
  <1>p. plan \in Plans(t, c)
    BY <1>0
  <1>w. \A word : /\ Write(word).kind = "order" /\ Write(word).to = word
                  /\ Write(word).add = 0
    BY DEF Write, NoPlan
  <1>5. ASSUME NEW word, Fits(c, word, 0), plan = Write(word)
        PROVE  Fits(c, plan.to, plan.add) /\ plan.kind = "order" /\ plan.add = 0
    BY <1>5, <1>w, Zenon
  <1>6. CASE op \in {"approve", "reject"}
    <2>1. status[c] = "suggested"
      BY <1>3, <1>6 DEF Permitted
    <2>2. plan = Write("rejected") \/ plan = Write("pending")
      BY <1>6, <1>p, Zenon DEF Plans, SubmitPlans
    <2>3. Fits(c, "rejected", 0) /\ Fits(c, "pending", 0)
      BY <2>1 DEF Fits
    <2>4. QED
      BY <1>0, <1>5, <2>2, <2>3, Zenon
  <1>7. CASE op = "cancel"
    <2>1. status[c] = "suggested" \/ status[c] = "pending"
      BY <1>3, <1>7 DEF Permitted
    <2>2. plan = Write("cancelled")
      BY <1>7, <1>p DEF Plans
    <2>3. Fits(c, "cancelled", 0)
      BY <2>1 DEF Fits
    <2>4. QED
      BY <1>0, <1>5, <2>2, <2>3, Zenon
  <1>8. CASE op = "delete"
    <2>1. status[c] \in {"cancelled", "rejected"}
      BY <1>3, <1>8 DEF Permitted
    <2>2. plan = Write("deleted")
      BY <1>8, <1>p DEF Plans
    <2>3. Fits(c, "deleted", 0)
      BY <2>1 DEF Fits
    <2>4. QED
      BY <1>0, <1>5, <2>2, <2>3, Zenon
  <1>9. CASE op \in {"fill", "batch"}
    <2>1. status[c] = "pending"
      BY <1>3, <1>9 DEF Permitted
    <2>2. PICK n : n = IF tx[t].q = 0 THEN Remaining(t, c) ELSE tx[t].q
      OBVIOUS
    <2>3. \/ plan \in {Write("rejected"), Write("pending"), Write("expired")}
          \/ plan = Write("filled") /\ Remaining(t, c) <= 0
          \/ /\ plan = Book(t, c, n) /\ Affordable(t, c, n)
             /\ ~(Remaining(t, c) <= 0) /\ ~(n > Remaining(t, c))
      <3>1. plan \in FillPlans(t, c) \/ plan = Write("expired")
        BY <1>9, <1>p DEF Plans
      <3>2. CASE plan \in FillPlans(t, c)
        <4>1. FillPlans(t, c) =
                {Write("rejected")}
                \cup (IF Remaining(t, c) <= 0 THEN {Write("filled")}
                      ELSE IF n > Remaining(t, c) THEN {}
                      ELSE {Write("pending")} \cup
                           (IF Affordable(t, c, n) /\ fills[c] + n <= MaxFilled
                              THEN {Book(t, c, n)} ELSE {}))
          BY <2>2, Zenon DEF FillPlans
        <4>2. QED
          BY <3>2, <4>1, Zenon
      <3>3. QED
        BY <3>1, <3>2, Zenon
    <2>4. CASE plan \in {Write("rejected"), Write("pending"), Write("expired")}
      <3>1. Fits(c, "rejected", 0) /\ Fits(c, "pending", 0) /\ Fits(c, "expired", 0)
        BY <2>1 DEF Fits
      <3>2. QED
        BY <1>0, <1>5, <2>4, <3>1, Zenon
    <2>5. CASE plan = Write("filled") /\ Remaining(t, c) <= 0
      <3>1. Fits(c, "filled", 0)
        BY <1>4, <2>1, <2>5 DEF Fits
      <3>2. QED
        BY <1>0, <1>5, <2>5, <3>1, Zenon
    <2>6. CASE /\ plan = Book(t, c, n) /\ Affordable(t, c, n)
               /\ ~(Remaining(t, c) <= 0) /\ ~(n > Remaining(t, c))
      <3>1. n \in Nat /\ n > 0
        <4>1. tx[t].q \in Nat
          BY <1>1 DEF TxRow
        <4>2. QED
          BY <1>4, <2>2, <2>6, <4>1
      <3>2. PICK signed : signed = IF Side[c] = "buy" THEN n ELSE -n
        OBVIOUS
      <3>3. signed = Signed(c, n) /\ signed \in Int
        BY <3>1, <3>2 DEF Signed
      <3>4. CashSeen(t) = RowCash(tx[t]) /\ PosSeen(t) = RowPos(tx[t])
        BY Zenon DEF CashSeen, PosSeen, RowCash, RowPos
      <3>5. PICK seen : seen = PosSeen(t)
        OBVIOUS
      <3>6. seen \in PosRow /\ CashSeen(t) \in Int
        BY <1>1, <3>5 DEF PosSeen, CashSeen, IInv, TypeOK, TxRow, PosRow
      <3>7. seen.qty \in Int /\ seen.qty >= 0 /\ CashSeen(t) >= 0 /\ seen.id = position.id
        <4>1. seen.qty >= 0 /\ CashSeen(t) >= 0 /\ seen.id = position.id
          BY <3>4, <3>5, Zenon DEF Valid, AccountValid
        <4>2. QED
          BY <3>6, <4>1 DEF PosRow
      <3>8. plan = [kind |-> "book", add |-> n,
                    to |-> IF n = Remaining(t, c) THEN "filled" ELSE "pending",
                    cash |-> CashSeen(t) - signed,
                    pos |-> [seen EXCEPT !.qty = @ + signed]]
        BY <2>6, <3>2, <3>5, Zenon DEF Book
      <3>9. plan.pos.qty = seen.qty + signed /\ plan.pos.id = seen.id
        <4>1. plan.pos = [seen EXCEPT !.qty = @ + signed]
          BY <3>8, Zenon
        <4>2. QED
          BY <3>6, <4>1, Zenon DEF PosRow
      <3>10. /\ plan.kind = "book" /\ plan.add = n /\ plan.cash = CashSeen(t) - signed
             /\ plan.to = IF n = Remaining(t, c) THEN "filled" ELSE "pending"
        BY <3>8, Zenon
      <3>11. Fits(c, plan.to, plan.add)
        BY <1>4, <2>1, <2>6, <3>1, <3>10 DEF Fits
      <3>12. IF Side[c] = "buy" THEN CashSeen(t) >= n ELSE seen.qty >= n
        BY <2>6, <3>5, Zenon DEF Affordable
      <3>13. CashSeen(t) - signed >= 0 /\ seen.qty + signed >= 0
        BY <3>1, <3>2, <3>6, <3>7, <3>12
      <3>14. QED
        BY <1>0, <3>3, <3>4, <3>5, <3>7, <3>9, <3>10, <3>11, <3>13, Zenon
    <2>7. QED
      BY <2>3, <2>4, <2>5, <2>6
  <1>10. QED
    BY <1>1, <1>6, <1>7, <1>8, <1>9 DEF Open, TxRow, Ops

LEMMA DecideSerial ==
  ASSUME IInv, SInv, NEW t \in Txs, Decide(t)
  PROVE  SInv'
  <1>1. PICK plan \in Plans(t, Current(t)) : tx' = [tx EXCEPT ![t].plan = plan]
    BY DEF Decide
  <1> DEFINE r == [tx[t] EXCEPT !.plan = plan]
  <1>2. /\ tx[t] \in TxRow /\ RowSerial(tx[t]) /\ tx[t].op # "none" /\ tx[t].todo # {}
        /\ tx[t].plan = NoPlan
    BY Zenon DEF IInv, SInv, Decide, Open
  <1>3. tx' = [tx EXCEPT ![t] = r] /\ UNCHANGED committed
    BY <1>1 DEF Decide, IInv
  <1>4. /\ r.op = tx[t].op /\ r.todo = tx[t].todo /\ r.plan = plan /\ r.locks = tx[t].locks
        /\ r.cash = tx[t].cash /\ r.pos = tx[t].pos /\ r.seenId = tx[t].seenId
        /\ r.to = tx[t].to /\ r.add = tx[t].add /\ r.stale = tx[t].stale
    BY <1>2, Zenon DEF TxRow
  <1> HIDE DEF r
  <1>5. ASSUME ~tx[t].stale
        PROVE  Valid(r)
    <2>1. Valid(tx[t])
      BY <1>2, <1>5 DEF RowSerial
    <2>2. /\ Fits(Current(t), plan.to, plan.add)
          /\ \/ plan.kind = "order" /\ plan.add = 0
             \/ /\ plan.kind = "book"
                /\ plan.cash = RowCash(tx[t]) - Signed(Current(t), plan.add)
                /\ plan.cash >= 0
                /\ plan.pos.qty = RowPos(tx[t]).qty + Signed(Current(t), plan.add)
                /\ plan.pos.qty >= 0 /\ plan.pos.id = position.id
      BY <1>2, <2>1, PlansFit DEF Open
    <2>3. Min(r.todo) = Current(t) /\ RowCash(r) = RowCash(tx[t]) /\ RowPos(r) = RowPos(tx[t])
      BY <1>4, Zenon DEF Current, RowCash, RowPos
    <2>4. Ahead(r) = Ahead(tx[t])
      <3>1. Ahead(tx[t]) = 0
        BY <1>2, NoPlanType DEF Ahead
      <3>2. Signed(Current(t), 0) = 0
        BY DEF Signed
      <3>3. CASE plan.kind = "order" /\ plan.add = 0
        BY <1>4, <2>3, <3>1, <3>2, <3>3, Zenon DEF Ahead
      <3>4. CASE plan.kind = "book"
        BY <1>4, <3>1, <3>4 DEF Ahead
      <3>5. QED
        BY <2>2, <3>3, <3>4
    <2>5. Shares(r) = Shares(tx[t])
      BY <1>4, Zenon DEF Shares
    <2>6. RowsValid(r)
      BY <1>4, <2>1, Zenon DEF Valid, RowsValid
    <2>7. PlanValid(r)
      BY <1>4, <2>2, <2>3, Zenon DEF PlanValid
    <2>8. AccountValid(r)
      BY <1>4, <2>1, <2>3, <2>4, <2>5, Zenon DEF Valid, AccountValid
    <2>9. BookingValid(r)
      <3>1. plan.kind = "book" => ~(plan.kind = "order")
        OBVIOUS
      <3>2. QED
        BY <1>4, <2>2, <2>3, <3>1, Zenon DEF BookingValid
    <2>10. QED
      BY <2>6, <2>7, <2>8, <2>9 DEF Valid
  <1>6. RowSerial(r)
    BY <1>2, <1>4, <1>5, Zenon DEF RowSerial
  <1>7. r.locks # {} => \A u \in Txs \ {t} : tx[u].locks = {}
    BY <1>4, Zenon DEF SInv, OneWriter
  <1>8. QED
    BY <1>3, <1>6, <1>7, OneSerial

LEMMA SharesType ==
  ASSUME NEW r \in TxRow
  PROVE  Shares(r) \in [Orders -> Int]
  <1>1. \A o \in Orders : Signed(o, r.add[o]) \in Int
    BY DEF Signed, TxRow
  <1>2. QED
    BY <1>1, Zenon DEF Shares

LEMMA SumIsInt ==
  ASSUME NEW a \in [Orders -> Int], NEW F, Sums(F, a, Orders)
  PROVE  F[Orders] \in Int
  <1>1. 1 \in Orders /\ a[1] = a[1] + 0
    BY TransactionsAssumption DEF Orders
  <1>2. QED
    BY <1>1, OrderSumFollows

LEMMA WriteAccountSerial ==
  ASSUME IInv, SInv, Isolation = "sqlite", NEW t \in Txs, WriteAccount(t)
  PROVE  SInv'
  <1> DEFINE plan == tx[t].plan
             seen == IF Account \in tx[t].locks THEN tx[t].seenId ELSE plan.pos.id
             r == [tx[t] EXCEPT !.plan.kind = "order", !.locks = @ \cup {Account},
                                !.cash = plan.cash, !.pos = plan.pos, !.seenId = seen]
  <1>1. /\ ~tx[t].stale /\ \A u \in Txs \ {t} : tx[u].locks = {}
        /\ tx[t] \in TxRow /\ RowSound(tx[t]) /\ RowSerial(tx[t])
        /\ tx[t].op # "none" => Valid(tx[t])
    BY OnlyWriter DEF WriteAccount
  <1>2. tx' = [tx EXCEPT ![t] = r] /\ UNCHANGED committed
    BY DEF WriteAccount, IInv
  <1>3. plan.kind = "book" /\ plan.kind # "none" /\ plan.kind # "order"
    BY DEF WriteAccount
  <1>4. tx[t].op # "none" /\ Valid(tx[t])
    BY <1>1, <1>3, Zenon DEF RowSerial
  <1>5. plan \in PlanRow /\ plan.cash \in Int /\ plan.pos \in PosRow /\ plan.add \in Nat
    BY <1>1 DEF TxRow, PlanRow
  <1> HIDE DEF seen, plan
  <1>6. /\ r.op = tx[t].op /\ r.todo = tx[t].todo
        /\ r.plan = [plan EXCEPT !.kind = "order"]
        /\ r.to = tx[t].to /\ r.add = tx[t].add
        /\ r.locks = tx[t].locks \cup {Account} /\ r.cash = plan.cash /\ r.pos = plan.pos
        /\ r.seenId = seen /\ r.stale = tx[t].stale
    BY <1>1, Zenon DEF TxRow, plan
  <1> HIDE DEF r
  <1>7. r.plan.to = plan.to /\ r.plan.add = plan.add /\ r.plan.kind = "order"
    BY <1>5, <1>6, Zenon DEF PlanRow
  <1>8. PICK n : n = Signed(Current(t), plan.add)
    OBVIOUS
  <1>9. n \in Int
    BY <1>5, <1>8 DEF Signed
  <1>10. PICK c0, q0 : c0 = RowCash(tx[t]) /\ q0 = RowPos(tx[t]).qty
    OBVIOUS
  <1>11. /\ plan.cash = c0 - n /\ plan.cash >= 0
         /\ plan.pos.qty = q0 + n /\ plan.pos.qty >= 0 /\ plan.pos.id = position.id
    BY <1>3, <1>4, <1>8, <1>10, Zenon DEF Valid, BookingValid, plan, Current
  <1>12. RowCash(r) = plan.cash /\ RowPos(r) = plan.pos
    BY <1>6 DEF RowCash, RowPos
  <1>13. Shares(r) = Shares(tx[t]) /\ Ahead(r) = n /\ Ahead(tx[t]) = 0
    <2>1. Shares(r) = Shares(tx[t])
      BY <1>6, Zenon DEF Shares
    <2>2. Ahead(r) = n
      BY <1>6, <1>7, <1>8, Zenon DEF Ahead, Current
    <2>3. Ahead(tx[t]) = 0
      BY <1>3, Zenon DEF Ahead, plan
    <2>4. QED
      BY <2>1, <2>2, <2>3
  <1>14. ASSUME NEW F, Sums(F, Shares(r), Orders)
         PROVE  /\ RowCash(r) = cash - (F[Orders] + Ahead(r))
                /\ RowPos(r).qty = position.qty + (F[Orders] + Ahead(r))
    <2>1. F[Orders] \in Int
      BY <1>1, <1>13, <1>14, SharesType, SumIsInt
    <2>2. c0 = cash - (F[Orders] + 0) /\ q0 = position.qty + (F[Orders] + 0)
      BY <1>4, <1>10, <1>13, <1>14, Zenon DEF Valid, AccountValid
    <2>3. cash \in Int /\ position.qty \in Int
      <3>1. cash \in Int /\ position \in [id : Nat, qty : Nat]
        BY Zenon DEF IInv, TypeOK
      <3>2. QED
        BY <3>1
    <2>4. c0 - n = cash - (F[Orders] + n) /\ q0 + n = position.qty + (F[Orders] + n)
      BY <1>9, <2>1, <2>2, <2>3
    <2>5. QED
      BY <1>11, <1>12, <1>13, <2>4, Zenon
  <1>15. seen = position.id
    BY <1>4, <1>11, Zenon DEF seen, Valid, AccountValid
  <1>16. AccountValid(r)
    BY <1>6, <1>11, <1>12, <1>14, <1>15, Zenon DEF AccountValid
  <1>17. RowsValid(r)
    BY <1>4, <1>6, Zenon DEF Valid, RowsValid
  <1>18. PlanValid(r)
    BY <1>3, <1>4, <1>6, <1>7, Zenon DEF Valid, PlanValid, plan
  <1>19. Valid(r)
    BY <1>7, <1>16, <1>17, <1>18 DEF Valid, BookingValid
  <1>20. RowSerial(r)
    BY <1>1, <1>4, <1>6, <1>19 DEF RowSerial
  <1>21. QED
    BY <1>1, <1>2, <1>20, OneSerial

LEMMA WriteOrderSerial ==
  ASSUME IInv, SInv, Isolation = "sqlite", NEW t \in Txs, WriteOrder(t)
  PROVE  SInv'
  <1> DEFINE o == Current(t)
             plan == tx[t].plan
             sum == tx[t].add[o] + plan.add
             r == [tx[t] EXCEPT !.plan = NoPlan, !.noted = FALSE, !.todo = @ \ {o},
                                !.locks = @ \cup {o}, !.to[o] = plan.to, !.add[o] = sum]
  <1>1. /\ ~tx[t].stale /\ \A u \in Txs \ {t} : tx[u].locks = {}
        /\ tx[t] \in TxRow /\ RowSound(tx[t]) /\ RowSerial(tx[t])
        /\ tx[t].op # "none" => Valid(tx[t])
    BY OnlyWriter DEF WriteOrder
  <1>2. tx' = [tx EXCEPT ![t] = r] /\ UNCHANGED committed
    BY Zenon DEF WriteOrder
  <1>3. plan.kind = "order" /\ plan.kind # "none"
    BY DEF WriteOrder
  <1>4. tx[t].op # "none" /\ Valid(tx[t])
    BY <1>1, <1>3, Zenon DEF RowSerial
  <1>5. tx[t].todo # {}
    BY <1>1, <1>3, Zenon DEF RowSound
  <1>6. o \in tx[t].todo /\ o \in Orders
    BY <1>1, <1>5, CurrentType DEF Current, TxRow
  <1>7. tx[t].add[o] = 0 /\ plan.add \in Nat /\ sum = plan.add
    <2>1. tx[t].add[o] = 0
      BY <1>4, <1>6, Zenon DEF Valid, RowsValid
    <2>2. plan.add \in Nat
      BY <1>1 DEF TxRow, PlanRow
    <2>3. QED
      BY <2>1, <2>2
  <1>8. Fits(o, plan.to, plan.add)
    BY <1>3, <1>4, Zenon DEF Valid, PlanValid, Current
  <1> HIDE DEF o, plan, sum
  <1>9. /\ r.op = tx[t].op /\ r.todo = tx[t].todo \ {o} /\ r.plan = NoPlan
        /\ r.to = [tx[t].to EXCEPT ![o] = plan.to]
        /\ r.add = [tx[t].add EXCEPT ![o] = sum]
        /\ r.locks = tx[t].locks \cup {o} /\ r.cash = tx[t].cash /\ r.pos = tx[t].pos
        /\ r.seenId = tx[t].seenId /\ r.stale = tx[t].stale
    BY <1>1, Zenon DEF TxRow
  <1> HIDE DEF r
  <1>10. /\ r.to[o] = plan.to /\ r.add[o] = plan.add
         /\ \A x \in Orders \ {o} : r.to[x] = tx[t].to[x] /\ r.add[x] = tx[t].add[x]
    BY <1>1, <1>6, <1>7, <1>9, Zenon DEF TxRow
  <1>11. RowsValid(r)
    <2>1. Fits(o, "", plan.add) => plan.add = 0
      BY Zenon DEF Fits
    <2>2. ASSUME NEW x \in Orders
          PROVE  IF r.to[x] = "" THEN r.add[x] = 0 ELSE Fits(x, r.to[x], r.add[x])
      <3>1. CASE x = o
        BY <1>8, <1>10, <2>1, <3>1, Zenon
      <3>2. CASE x # o
        <4>1. r.to[x] = tx[t].to[x] /\ r.add[x] = tx[t].add[x]
          BY <1>10, <3>2
        <4>2. QED
          BY <1>4, <4>1, Zenon DEF Valid, RowsValid
      <3>3. QED
        BY <3>1, <3>2
    <2>3. ASSUME NEW x \in r.todo
          PROVE  r.add[x] = 0 /\ status[x] \in Permitted(r.op)
      <3>1. x \in tx[t].todo /\ x \in Orders \ {o}
        BY <1>1, <1>9 DEF TxRow
      <3>2. QED
        BY <1>4, <1>9, <1>10, <3>1, Zenon DEF Valid, RowsValid
    <2>4. QED
      BY <2>2, <2>3, Zenon DEF RowsValid
  <1>12. Account \in r.locks <=> Account \in tx[t].locks
    BY <1>6, <1>9, TransactionsAssumption DEF Account, Orders
  <1>13. RowCash(r) = RowCash(tx[t]) /\ RowPos(r) = RowPos(tx[t])
    BY <1>9, <1>12, Zenon DEF RowCash, RowPos
  <1>14. PICK n : n = Signed(o, plan.add)
    OBVIOUS
  <1>15. n \in Int
    BY <1>7, <1>14 DEF Signed
  <1>16. Ahead(tx[t]) = n /\ Ahead(r) = 0
    <2>1. Ahead(tx[t]) = n
      BY <1>3, <1>14, Zenon DEF Ahead, Current, o, plan
    <2>2. Ahead(r) = 0
      BY <1>9, NoPlanType DEF Ahead
    <2>3. QED
      BY <2>1, <2>2
  <1>17. /\ Shares(tx[t]) \in [Orders -> Int] /\ Shares(r) \in [Orders -> Int]
         /\ Shares(r)[o] = Shares(tx[t])[o] + n
         /\ \A x \in Orders \ {o} : Shares(r)[x] = Shares(tx[t])[x]
    <2>1. Signed(o, 0) = 0
      BY DEF Signed
    <2>2. Shares(tx[t])[o] = 0
      BY <1>6, <1>7, <2>1, Zenon DEF Shares
    <2>3. Shares(r)[o] = n
      BY <1>6, <1>10, <1>14, Zenon DEF Shares
    <2>4. ASSUME NEW x \in Orders \ {o}
          PROVE  Shares(r)[x] = Shares(tx[t])[x]
      BY <1>10, Zenon DEF Shares
    <2>5. Shares(tx[t]) \in [Orders -> Int]
      BY <1>1, SharesType
    <2>6. Shares(r) \in [Orders -> Int]
      <3>1. \A x \in Orders : Shares(r)[x] \in Int
        BY <1>15, <2>3, <2>4, <2>5
      <3>2. QED
        BY <3>1, Zenon DEF Shares
    <2>7. Shares(r)[o] = Shares(tx[t])[o] + n
      BY <1>15, <2>2, <2>3
    <2>8. QED
      BY <2>4, <2>5, <2>6, <2>7
  <1>18. ASSUME NEW G, Sums(G, Shares(r), Orders)
         PROVE  /\ RowCash(r) = cash - (G[Orders] + Ahead(r))
                /\ RowPos(r).qty = position.qty + (G[Orders] + Ahead(r))
    <2>1. PICK F : Sums(F, Shares(tx[t]), Orders)
      BY <1>17, OrdersFinite, SumExists
    <2>2. F[Orders] \in Int /\ G[Orders] = F[Orders] + n
      <3>1. PICK a, b, x : a = Shares(tx[t]) /\ b = Shares(r) /\ x = o
        OBVIOUS
      <3>2. a \in [Orders -> Int] /\ b \in [Orders -> Int] /\ x \in Orders
        BY <1>6, <1>17, <3>1
      <3>3. b[x] = a[x] + n /\ \A y \in Orders \ {x} : b[y] = a[y]
        BY <1>17, <3>1
      <3>4. Sums(F, a, Orders) /\ Sums(G, b, Orders)
        BY <1>18, <2>1, <3>1, Zenon
      <3>5. QED
        BY <1>15, <3>2, <3>3, <3>4, OrderSumFollows
    <2>3. /\ RowCash(tx[t]) = cash - (F[Orders] + n)
          /\ RowPos(tx[t]).qty = position.qty + (F[Orders] + n)
      BY <1>4, <1>16, <2>1, Zenon DEF Valid, AccountValid
    <2>4. G[Orders] + 0 = F[Orders] + n
      BY <1>15, <2>2
    <2>5. QED
      BY <1>13, <1>16, <2>3, <2>4, Zenon
  <1>19. AccountValid(r)
    BY <1>4, <1>9, <1>12, <1>13, <1>18, Zenon DEF Valid, AccountValid
  <1>20. Valid(r)
    BY <1>9, <1>11, <1>19, NoPlanType DEF Valid, PlanValid, BookingValid
  <1>21. RowSerial(r)
    BY <1>1, <1>4, <1>9, <1>20 DEF RowSerial
  <1>22. QED
    BY <1>1, <1>2, <1>21, OneSerial

\* What a commit does to the rows: each order takes a step it may take, and the
\* account becomes what the transaction has seen and written.
LEMMA CommitEffect ==
  ASSUME IInv, SInv, Isolation = "sqlite", NEW t \in Txs, Commit(t)
  PROVE  /\ ~tx[t].stale /\ Valid(tx[t]) /\ Ahead(tx[t]) = 0
         /\ \A u \in Txs \ {t} : tx[u].locks = {}
         /\ \A o \in Orders : /\ fills'[o] = fills[o] + tx[t].add[o]
                              /\ Fits(o, status'[o], tx[t].add[o])
         /\ cash' = RowCash(tx[t]) /\ position'.qty = RowPos(tx[t]).qty
  <1>1. /\ tx[t] \in TxRow /\ RowSound(tx[t]) /\ RowSerial(tx[t])
        /\ tx[t].op # "none" /\ tx[t].todo = {}
    BY Zenon DEF IInv, SInv, Commit, Open
  <1>2. tx[t].locks # {} /\ ~tx[t].stale /\ Valid(tx[t])
    BY <1>1, Zenon DEF RowSerial
  <1>3. \A u \in Txs \ {t} : tx[u].locks = {}
    BY <1>2, Zenon DEF SInv, OneWriter
  <1>4. Ahead(tx[t]) = 0
    <2>1. tx[t].plan.kind = "none"
      BY <1>1, Zenon DEF RowSound
    <2>2. QED
      BY <2>1 DEF Ahead
  <1>5. ASSUME NEW o \in Orders
        PROVE  /\ fills'[o] = fills[o] + tx[t].add[o]
               /\ Fits(o, status'[o], tx[t].add[o])
    <2>1. fills'[o] = fills[o] + tx[t].add[o]
      <3>1. fills' = [x \in Orders |->
                       IF (/\ x \in {y \in Orders : tx[t].to[y] # ""}
                           /\ tx[t].to[x] = "deleted" /\ Isolation = "postgres")
                         THEN 0 ELSE fills[x] + tx[t].add[x]]
        BY Zenon DEF Commit
      <3>2. ~(Isolation = "postgres")
        OBVIOUS
      <3>3. QED
        BY <3>1, <3>2, Zenon
    <2>2. IF tx[t].to[o] = "" THEN tx[t].add[o] = 0 ELSE Fits(o, tx[t].to[o], tx[t].add[o])
      BY <1>2, Zenon DEF Valid, RowsValid
    <2>3. status'[o] = IF tx[t].to[o] # "" THEN tx[t].to[o] ELSE status[o]
      BY Zenon DEF Commit
    <2>4. tx[t].add[o] = 0 => Fits(o, status[o], tx[t].add[o])
      BY Zenon DEF Fits
    <2>5. QED
      BY <2>1, <2>2, <2>3, <2>4, Zenon
  <1>6. cash' = RowCash(tx[t]) /\ position'.qty = RowPos(tx[t]).qty
    <2>1. CASE Account \in tx[t].locks
      <3>1. cash' = tx[t].cash /\ position' = PositionAfter(t)
        BY <2>1, Zenon DEF Commit
      <3>2. RowCash(tx[t]) = tx[t].cash /\ RowPos(tx[t]) = tx[t].pos
        BY <2>1, Zenon DEF RowCash, RowPos
      <3>3. tx[t].pos.qty \in Int /\ tx[t].pos.qty >= 0 /\ tx[t].seenId = position.id
        <4>1. tx[t].pos \in PosRow
          BY <1>1 DEF TxRow
        <4>2. tx[t].pos.qty >= 0 /\ tx[t].seenId = position.id
          BY <1>2, <2>1, <3>2, Zenon DEF Valid, AccountValid
        <4>3. QED
          BY <4>1, <4>2 DEF PosRow
      <3>4. PositionAfter(t).qty = tx[t].pos.qty
        BY <3>3 DEF PositionAfter
      <3>5. QED
        BY <3>1, <3>2, <3>4
    <2>2. CASE ~(Account \in tx[t].locks)
      <3>1. UNCHANGED <<cash, position>>
        BY <2>2, Zenon DEF Commit
      <3>2. QED
        BY <2>2, <3>1, Zenon DEF RowCash, RowPos
    <2>3. QED
      BY <2>1, <2>2
  <1>7. QED
    BY <1>2, <1>3, <1>4, <1>5, <1>6

LEMMA CommitSerial ==
  ASSUME IInv, SInv, Isolation = "sqlite", NEW t \in Txs, Commit(t)
  PROVE  SInv'
  <1>1. /\ ~tx[t].stale /\ Valid(tx[t]) /\ Ahead(tx[t]) = 0
        /\ \A u \in Txs \ {t} : tx[u].locks = {}
        /\ \A o \in Orders : /\ fills'[o] = fills[o] + tx[t].add[o]
                             /\ Fits(o, status'[o], tx[t].add[o])
        /\ cash' = RowCash(tx[t]) /\ position'.qty = RowPos(tx[t]).qty
    BY CommitEffect
  <1>2. cash' >= 0
    BY <1>1, Zenon DEF Valid, AccountValid
  <1>3. ASSUME NEW o \in Orders
        PROVE  fills'[o] <= Qty[o]
    <2>1. fills[o] \in Nat /\ fills[o] <= Qty[o] /\ Qty[o] \in Nat \ {0}
      BY TransactionsAssumption, Zenon DEF IInv, TypeOK, SInv
    <2>2. tx[t].add[o] \in Nat
      BY DEF IInv, TxRow
    <2>3. fills[o] + tx[t].add[o] <= Qty[o]
      BY <1>1, <2>1, <2>2 DEF Fits
    <2>4. QED
      BY <1>1, <2>3
  <1>4. /\ tx'[t] = Closed
        /\ \A u \in Txs \ {t} :
             tx'[u] = [tx[u] EXCEPT !.stale = Open(u) /\ Isolation = "sqlite"]
    BY Zenon DEF Commit, Overtaken
  <1>5. ASSUME NEW u \in Txs
        PROVE  tx'[u].locks = {} /\ RowSerial(tx[u])'
    <2>1. CASE u = t
      <3>1. RowSerial(Closed)' /\ Closed.locks = {}
        BY DEF RowSerial, Closed, NoPlan
      <3>2. QED
        BY <1>4, <2>1, <3>1, Zenon DEF RowSerial
    <2>2. CASE u # t
      <3>1. PICK s : s = (Open(u) /\ Isolation = "sqlite")
        OBVIOUS
      <3>2. tx[u] \in TxRow /\ RowSerial(tx[u]) /\ tx[u].locks = {}
        BY <1>1, <2>2, Zenon DEF IInv, SInv
      <3>3. tx'[u] = [tx[u] EXCEPT !.stale = s]
        BY <1>4, <2>2, <3>1, Zenon
      <3>4. /\ tx'[u].op = tx[u].op /\ tx'[u].todo = tx[u].todo /\ tx'[u].plan = tx[u].plan
            /\ tx'[u].locks = tx[u].locks /\ tx'[u].stale = s
        BY <3>2, <3>3, Zenon DEF TxRow
      <3>5. tx[u].op # "none" => s
        BY <3>1, Zenon DEF Open
      <3>6. QED
        BY <3>2, <3>4, <3>5, Zenon DEF RowSerial
    <2>3. QED
      BY <2>1, <2>2
  <1>6. OneWriter'
    BY <1>5, Zenon DEF OneWriter
  <1>7. QED
    BY <1>2, <1>3, <1>5, <1>6, Zenon DEF SInv

LEMMA InitSerial == Init => SInv
  <1> SUFFICES ASSUME Init PROVE SInv
    OBVIOUS
  <1>1. \A t \in Txs : tx[t] = Closed
    BY Zenon DEF Init
  <1>2. OneWriter
    <2>1. Closed.locks = {}
      BY DEF Closed
    <2>2. QED
      BY <1>1, <2>1, Zenon DEF OneWriter
  <1>3. cash >= 0 /\ \A o \in Orders : fills[o] <= Qty[o]
    <2>1. cash = InitialCash /\ fills = [o \in Orders |-> 0]
      BY Zenon DEF Init
    <2>2. QED
      BY <2>1, TransactionsAssumption
  <1>4. QED
    BY <1>1, <1>2, <1>3, ClosedSerial, Zenon DEF SInv

LEMMA NextSerial ==
  Isolation = "sqlite" => (IInv /\ SInv /\ [Next]_vars => SInv')
  <1> SUFFICES ASSUME Isolation = "sqlite", IInv, SInv, [Next]_vars PROVE SInv'
    OBVIOUS
  <1>1. CASE UNCHANGED vars
    <2>1. UNCHANGED committed /\ UNCHANGED tx
      BY <1>1 DEF vars, committed
    <2>2. ASSUME NEW u \in Txs
          PROVE  RowSerial(tx[u])'
      <3>1. PICK q : q = tx[u]
        OBVIOUS
      <3>2. RowSerial(q)
        BY <3>1, Zenon DEF SInv
      <3>3. RowSerial(q)'
        BY <2>1, <3>2, SerialStays
      <3>4. QED
        BY <2>1, <3>1, <3>3, Zenon DEF RowSerial
    <2>3. OneWriter'
      BY <2>1, Zenon DEF SInv, OneWriter
    <2>4. cash' >= 0 /\ \A o \in Orders : fills'[o] <= Qty[o]
      BY <2>1, Zenon DEF committed, SInv
    <2>5. QED
      BY <2>2, <2>3, <2>4, Zenon DEF SInv
  <1>2. ASSUME NEW t \in Txs, NEW op \in Ops, NEW S \in SUBSET Orders, NEW q \in 0..1,
               Begin(t, op, S, IF op = "fill" THEN q ELSE 0)
        PROVE  SInv'
    <2>1. (IF op = "fill" THEN q ELSE 0) \in Nat
      OBVIOUS
    <2>2. QED
      BY <1>2, <2>1, BeginSerial
  <1>3. ASSUME NEW t \in Txs,
               \/ SaveNote(t) \/ Decide(t) \/ WriteAccount(t) \/ WriteOrder(t)
               \/ Commit(t) \/ Abort(t)
        PROVE  SInv'
    BY <1>3, SaveNoteSerial, DecideSerial, WriteAccountSerial, WriteOrderSerial,
       CommitSerial, AbortSerial
  <1>4. QED
    BY <1>1, <1>2, <1>3, Zenon DEF Next

\* A commit is a step of the order book, and nothing else touches its rows.
LEMMA CommitIsStep ==
  ASSUME IInv, SInv, Isolation = "sqlite", NEW t \in Txs, Commit(t)
  PROVE  Book_!Step
  <1>1. /\ Valid(tx[t]) /\ Ahead(tx[t]) = 0 /\ tx[t] \in TxRow
        /\ \A o \in Orders : /\ fills'[o] = fills[o] + tx[t].add[o]
                             /\ Fits(o, status'[o], tx[t].add[o])
        /\ cash' = RowCash(tx[t]) /\ position'.qty = RowPos(tx[t]).qty
    BY CommitEffect DEF IInv
  <1>2. ASSUME NEW o \in Orders
        PROVE  Book_!Moves(o) /\ Book_!Added(o) = Shares(tx[t])[o]
    <2>1. PICK n, f, word : n = tx[t].add[o] /\ f = fills[o] /\ word = status'[o]
      OBVIOUS
    <2>2. n \in Nat /\ f \in Nat /\ Qty[o] \in Nat \ {0}
      BY <1>1, <2>1, TransactionsAssumption DEF TxRow, IInv, TypeOK
    <2>3. fills'[o] = f + n /\ Fits(o, word, n)
      BY <1>1, <2>1, Zenon
    <2>4. Book_!Moves(o)
      BY <2>1, <2>2, <2>3, SMT DEF Fits, Book_!Moves
    <2>5. Shares(tx[t])[o] = Signed(o, n)
      BY <2>1, Zenon DEF Shares
    <2>6. Book_!Added(o) = Signed(o, n)
      <3>1. word = "deleted" => n = 0
        BY <2>2, <2>3 DEF Fits
      <3>2. (f + n) - f = n /\ f - (f + n) = 0 - n
        BY <2>2
      <3>3. Signed(o, 0) = 0
        BY DEF Signed
      <3>4. QED
        BY <2>1, <2>3, <3>1, <3>2, <3>3, Zenon DEF Signed, Book_!Added
    <2>7. QED
      BY <2>4, <2>5, <2>6
  <1>3. PICK a : a = Shares(tx[t])
    OBVIOUS
  <1>4. a \in [Orders -> Int]
    BY <1>1, <1>3, SharesType
  <1>5. PICK F : Sums(F, a, Orders)
    BY <1>4, OrdersFinite, SumExists
  <1>6. Book_!MapThenSumSet(Book_!Added, Orders) = F[Orders]
    <2>1. \A o \in Orders : Book_!Added(o) = a[o]
      BY <1>2, <1>3
    <2>2. QED
      BY <1>4, <1>5, <2>1, BookSum
  <1>7. F[Orders] \in Int /\ cash \in Int /\ position.qty \in Int
    <2>1. cash \in Int /\ position \in [id : Nat, qty : Nat]
      BY Zenon DEF IInv, TypeOK
    <2>2. QED
      BY <1>4, <1>5, <2>1, SumIsInt
  <1>8. /\ cash' = cash - (F[Orders] + 0) /\ cash' >= 0
        /\ position'.qty = position.qty + (F[Orders] + 0) /\ position'.qty >= 0
    BY <1>1, <1>3, <1>5, Zenon DEF Valid, AccountValid
  <1>9. cash' = cash - F[Orders] /\ position'.qty = position.qty + F[Orders]
    BY <1>7, <1>8
  <1>10. QED
    BY <1>2, <1>6, <1>8, <1>9, Zenon DEF Book_!Step

LEMMA NextIsStep ==
  Isolation = "sqlite" => (IInv /\ SInv /\ [Next]_vars => [Book_!Step]_(Book_!book))
  <1> SUFFICES ASSUME Isolation = "sqlite", IInv, SInv, [Next]_vars
               PROVE  [Book_!Step]_(Book_!book)
    OBVIOUS
  <1>1. UNCHANGED committed => UNCHANGED Book_!book
    BY DEF committed, Book_!book
  <1>2. CASE UNCHANGED vars
    BY <1>1, <1>2 DEF vars, committed
  <1>3. ASSUME NEW t \in Txs, NEW op \in Ops, NEW S \in SUBSET Orders, NEW q \in 0..1,
               Begin(t, op, S, IF op = "fill" THEN q ELSE 0)
        PROVE  UNCHANGED committed
    BY <1>3 DEF Begin
  <1>4. ASSUME NEW t \in Txs,
               SaveNote(t) \/ Decide(t) \/ WriteAccount(t) \/ WriteOrder(t) \/ Abort(t)
        PROVE  UNCHANGED committed
    BY <1>4, Zenon DEF SaveNote, Decide, WriteAccount, WriteOrder, Abort
  <1>5. ASSUME NEW t \in Txs, Commit(t)
        PROVE  Book_!Step
    BY <1>5, CommitIsStep
  <1>6. QED
    BY <1>1, <1>2, <1>3, <1>4, <1>5, Zenon DEF Next

LEMMA InitIsInit == Init => Book_!Init
  <1> SUFFICES ASSUME Init PROVE Book_!Init
    OBVIOUS
  <1>1. /\ status = [o \in Orders |-> "suggested"] /\ fills = [o \in Orders |-> 0]
        /\ cash = InitialCash
        /\ position = [id |-> IF InitialHeld > 0 THEN 1 ELSE 0, qty |-> InitialHeld]
    BY Zenon DEF Init
  <1>2. QED
    BY <1>1 DEF Book_!Init

LEMMA SerialInvariant == Isolation = "sqlite" => (Spec => [](IInv /\ SInv))
  <1> SUFFICES ASSUME Isolation = "sqlite" PROVE Spec => [](IInv /\ SInv)
    OBVIOUS
  <1>1. Init => IInv /\ SInv
    BY InitStep, InitSerial
  <1>2. IInv /\ SInv /\ [Next]_vars => (IInv /\ SInv)'
    BY NextStep, NextSerial
  <1>3. QED
    BY <1>1, <1>2, PTL DEF Spec

-----------------------------------------------------------------------------
(* The theorems. *)

\* Whatever the transactions overwrite, on either database, the tables hold what
\* their columns can hold, and a position row without shares is never left.
THEOREM TransactionsTypes == Spec => []TypeOK
  BY Invariant, PTL DEF IInv

\* Whatever the transactions overwrite, on either database, an order executes
\* only after its approval committed.
THEOREM TransactionsApproved == Spec => []ApprovalCommitted
  BY Invariant, PTL DEF IInv

\* On SQLite, whatever the transactions overlap, the committed tables are a
\* history of the order book that PaperOrderBook promises: an order moves along
\* its lifecycle, is filled up to its quantity, and cash and shares move by it.
THEOREM SqliteKeepsPromise == Isolation = "sqlite" => (Spec => LedgerPromise)
  <1> SUFFICES ASSUME Isolation = "sqlite" PROVE Spec => LedgerPromise
    OBVIOUS
  <1>1. Spec => [](IInv /\ SInv)
    BY SerialInvariant
  <1>2. IInv /\ SInv /\ [Next]_vars => [Book_!Step]_(Book_!book)
    BY NextIsStep
  <1>3. QED
    BY <1>1, <1>2, InitIsInit, PTL DEF Spec, LedgerPromise, Book_!Spec

\* On SQLite cancelling an order ends it: what remains of it is never filled.  The
\* race that refutes this on PostgreSQL needs a fill that decides on an old row.
THEOREM SqliteCancelIsFinal == Isolation = "sqlite" => (Spec => CancelledStaysUnfilled)
  <1> SUFFICES ASSUME Isolation = "sqlite" PROVE Spec => CancelledStaysUnfilled
    OBVIOUS
  <1>1. Spec => [](IInv /\ SInv)
    BY SerialInvariant
  <1>2. IInv /\ SInv /\ [Next]_vars
          => [\A o \in Orders : status[o] = "cancelled" => fills'[o] <= fills[o]]_vars
    <2> SUFFICES ASSUME IInv, SInv, [Next]_vars, NEW o \in Orders, status[o] = "cancelled"
                 PROVE  fills'[o] <= fills[o]
      OBVIOUS
    <2>1. fills[o] \in Nat
      BY DEF IInv, TypeOK
    <2>2. Book_!Moves(o) \/ fills' = fills
      BY NextIsStep DEF Book_!Step, Book_!book
    <2>3. Book_!Moves(o) => fills'[o] \in {0, fills[o]}
      BY Zenon DEF Book_!Moves
    <2>4. QED
      BY <2>1, <2>2, <2>3
  <1>3. QED
    BY <1>1, <1>2, PTL DEF Spec, CancelledStaysUnfilled
=============================================================================
