-------------------------- MODULE SendScreenProofs --------------------------
(***************************************************************************)
(* Proofs about SendScreen, for any addresses and coins and any number of  *)
(* screens, options and sends.                                             *)
(***************************************************************************)
EXTENDS SendScreen, SequenceTheorems, TLAPS

(* Results wait only while the send screen is covered.                     *)
ResultsWait == resumed => results = <<>>

(* The transaction in the field is the one of every open confirmation, and *)
(* when the result of a confirmation waits it has been confirmed.          *)
FieldIsShown ==
    ~retapped =>
        /\ \A k \in 1..Len(stack) :
               stack[k].name = "confirmation" => stack[k].tx = transaction
        /\ \A k \in 1..Len(results) :
               results[k].of = "confirmation" => transaction \in confirmed

ConfirmInv == TypeOK /\ ResultsWait /\ FieldIsShown /\ CommittedWasConfirmed

(* The field choice follows what the user approved, except for a change    *)
(* address: none ever reaches it.                                          *)
Follows(data, wish) ==
    /\ data.outputs = wish.outputs /\ data.unspent = wish.unspent
    /\ data.fee = wish.fee /\ data.changeToOrigin = wish.changeToOrigin
    /\ data.changeAddress = NoAddress

ChoiceInv ==
    /\ TypeOK
    /\ Follows(choice, asked)
    /\ \A k \in 1..Len(results) : Follows(results[k].data, results[k].wish)
    /\ ShowsWhatWasAsked

----------------------------------------------------------------------------
(* NoChoice is a choice, and so is every change of one of its fields.      *)
LEMMA ChoiceType ==
    /\ NoChoice \in Choice
    /\ \A d \in SUBSET Destination : [NoChoice EXCEPT !.outputs = d] \in Choice
    /\ \A c \in SUBSET Coin : [NoChoice EXCEPT !.unspent = c] \in Choice
    /\ \A f \in Fee : [NoChoice EXCEPT !.fee = f] \in Choice
    /\ [NoChoice EXCEPT !.changeToOrigin = TRUE] \in Choice
    /\ \A a \in Address : [NoChoice EXCEPT !.changeAddress = a] \in Choice
BY DEF NoChoice, Choice, Fee

(* Whatever send() puts into the field is a transaction, or leaves what    *)
(* was there; a new screen is a confirmation of it.                        *)
LEMMA SendEffect ==
    ASSUME TypeOK, SimpleSend \/ CustomSend
    PROVE  /\ transaction' \in Transaction \cup {NoTransaction}
           /\ \/ stack' = stack
              \/ /\ transaction' \in Transaction
                 /\ stack' = Append(stack, [name |-> "confirmation", tx |-> transaction',
                                            asked |-> Wanted])
<1>1. ASSUME NEW tx \in Transaction, NEW current, CheckOrigin(tx, current)
      PROVE  /\ transaction' \in Transaction
             /\ \/ stack' = stack
                \/ stack' = Append(stack, [name |-> "confirmation", tx |-> transaction',
                                           asked |-> Wanted])
  <2>1. MoveChange(tx, current) \in Transaction
    BY DEF MoveChange, Transaction
  <2>2. ASSUME NEW moved \in Transaction, NEW again \in CompletedAgain(moved)
        PROVE  again \in Transaction
    BY <2>2 DEF CompletedAgain, Transaction, Rate, Fee
  <2>. QED
    BY <1>1, <2>1, <2>2 DEF CheckOrigin, Show, Abort
<1>2. ASSUME NEW pays \in SUBSET Destination, NEW inputs,
             NEW change \in Destination \cup {"own"},
             NEW tx \in Completed(pays, inputs, change)
      PROVE  tx \in Transaction
  BY <1>2 DEF Completed, GetFee, Transaction, TypeOK, Choice, Fee, Rate
<1>3. choice \in Choice /\ typed \in Destination \cup {NoAddress}
  BY DEF TypeOK
<1>4. CASE SimpleSend
  <2> DEFINE current == IF choice.changeAddress # NoAddress
                        THEN choice.changeAddress ELSE Receive
  <2>1. current \in Destination
    BY <1>3 DEF Choice, Destination
  <2>2. {typed} \in SUBSET Destination
    BY <1>3, <1>4 DEF SimpleSend
  <2>3. \/ Abort(transaction)
        \/ \E tx \in Completed({typed}, {}, current) : CheckOrigin(tx, current)
    BY <1>4 DEF SimpleSend
  <2>. HIDE DEF current
  <2>4. CASE Abort(transaction)
    BY <2>4 DEF Abort, TypeOK
  <2>5. ASSUME NEW tx \in Completed({typed}, {}, current), CheckOrigin(tx, current)
        PROVE  /\ transaction' \in Transaction
               /\ \/ stack' = stack
                  \/ stack' = Append(stack, [name |-> "confirmation", tx |-> transaction',
                                             asked |-> Wanted])
    <3>1. tx \in Transaction
      BY <1>2, <2>1, <2>2
    <3>. QED
      BY <1>1, <2>5, <3>1
  <2>. QED
    BY <2>3, <2>4, <2>5
<1>5. CASE CustomSend
  <2> DEFINE current == IF choice.changeAddress = NoAddress THEN NoAddress ELSE Receive
             change  == IF current = NoAddress THEN "own" ELSE current
             begun   == [pays |-> Outputs, inputs |-> choice.unspent, fee |-> "default",
                         complete |-> FALSE, change |-> "none"]
  <2>1. change \in Destination \cup {"own"}
    BY DEF Destination
  <2>2. Outputs \in SUBSET Destination
    BY <1>3 DEF Outputs, Choice
  <2>3. begun \in Transaction /\ [begun EXCEPT !.inputs = {}] \in Transaction
    BY <1>3, <2>2 DEF Transaction, Choice, Fee, Rate
  <2>4. \/ Abort([begun EXCEPT !.inputs = {}])
        \/ Abort(begun)
        \/ \E tx \in Completed(Outputs, choice.unspent, change) : CheckOrigin(tx, current)
    BY <1>5 DEF CustomSend
  <2>. HIDE DEF current, change, begun
  <2>5. CASE Abort([begun EXCEPT !.inputs = {}]) \/ Abort(begun)
    BY <2>3, <2>5 DEF Abort
  <2>6. ASSUME NEW tx \in Completed(Outputs, choice.unspent, change), CheckOrigin(tx, current)
        PROVE  /\ transaction' \in Transaction
               /\ \/ stack' = stack
                  \/ stack' = Append(stack, [name |-> "confirmation", tx |-> transaction',
                                             asked |-> Wanted])
    <3>1. tx \in Transaction
      BY <1>2, <2>1, <2>2
    <3>. QED
      BY <1>1, <2>6, <3>1
  <2>. QED
    BY <2>4, <2>5, <2>6
<1>. QED
  BY <1>4, <1>5

----------------------------------------------------------------------------
(* A stack without its top, and a queue without its head.                  *)
LEMMA PopType ==
    ASSUME NEW S, NEW s \in Seq(S), s # <<>>
    PROVE  /\ SubSeq(s, 1, Len(s) - 1) \in Seq(S)
           /\ Len(SubSeq(s, 1, Len(s) - 1)) = Len(s) - 1
           /\ \A k \in 1..(Len(s) - 1) : SubSeq(s, 1, Len(s) - 1)[k] = s[k]
           /\ s[Len(s)] \in S
<1>1. Len(s) \in Nat \ {0}
  OBVIOUS
<1>2. s[Len(s)] \in S
  BY <1>1
<1>. QED
  BY <1>1, <1>2, SubSeqProperties

LEMMA TailType ==
    ASSUME NEW S, NEW s \in Seq(S), s # <<>>
    PROVE  /\ Tail(s) \in Seq(S) /\ Head(s) \in S /\ Head(s) = s[1]
           /\ Len(Tail(s)) = Len(s) - 1
           /\ \A k \in 1..(Len(s) - 1) : Tail(s)[k] = s[k + 1]
  OBVIOUS

LEMMA AppendType ==
    ASSUME NEW S, NEW s \in Seq(S), NEW e \in S
    PROVE  /\ Append(s, e) \in Seq(S)
           /\ Len(Append(s, e)) = Len(s) + 1
           /\ \A k \in 1..Len(s) : Append(s, e)[k] = s[k]
           /\ Append(s, e)[Len(s) + 1] = e
  OBVIOUS

(* What the screen on top returns is a result.                             *)
LEMMA ReturnType ==
    ASSUME TypeOK, stack # <<>>, NEW data \in Choice, NEW wish \in Choice,
           Return(data, wish), confirmed' \subseteq Transaction
    PROVE  TypeOK'
<1> DEFINE r == [of |-> Top.name, data |-> data, wish |-> wish]
<1>1. stack \in Seq(Screen) /\ results \in Seq(Result)
  BY DEF TypeOK
<1>2. Top \in Screen
  BY <1>1, PopType DEF Top
<1>3. r \in Result
  BY <1>2 DEF Screen, Result
<1>4. stack' \in Seq(Screen)
  BY <1>1, PopType DEF Return, Pop
<1>5. results' \in Seq(Result)
  BY <1>1, <1>3, AppendType DEF Return
<1>. QED
  BY <1>4, <1>5 DEF Return, TypeOK

(* Taking over a result gives a choice again.                              *)
LEMMA TakeType ==
    ASSUME choice \in Choice, asked \in Choice, NEW r \in Result,
           \/ TakeOutputs(r) \/ TakeInputs(r) \/ TakeFee(r) \/ TakeChange(r)
           \/ UNCHANGED <<choice, asked>>
    PROVE  choice' \in Choice /\ asked' \in Choice
<1>1. r.data \in Choice /\ r.wish \in Choice
  BY DEF Result
<1>2. CASE TakeOutputs(r)
  BY <1>1, <1>2 DEF TakeOutputs, Choice
<1>3. CASE TakeInputs(r)
  BY <1>1, <1>3 DEF TakeInputs, Choice
<1>4. CASE TakeFee(r)
  BY <1>1, <1>4 DEF TakeFee, Choice
<1>5. CASE TakeChange(r)
  BY <1>1, <1>5 DEF TakeChange, Choice
<1>. QED
  BY <1>2, <1>3, <1>4, <1>5

(* The stack and the results before and after a screen returns.            *)
LEMMA ReturnEffect ==
    ASSUME TypeOK, stack # <<>>, NEW data \in Choice, NEW wish \in Choice,
           Return(data, wish)
    PROVE  /\ Len(stack') = Len(stack) - 1
           /\ \A k \in 1..Len(stack') : k \in 1..Len(stack) /\ stack'[k] = stack[k]
           /\ Len(results') = Len(results) + 1
           /\ \A k \in 1..Len(results') :
                  \/ k \in 1..Len(results) /\ results'[k] = results[k]
                  \/ results'[k] = [of |-> Top.name, data |-> data, wish |-> wish]
<1> DEFINE r == [of |-> Top.name, data |-> data, wish |-> wish]
<1>1. stack \in Seq(Screen) /\ results \in Seq(Result)
  BY DEF TypeOK
<1>2. Top \in Screen
  BY <1>1, PopType DEF Top
<1>3. r \in Result
  BY <1>2 DEF Screen, Result
<1>4. /\ stack' = SubSeq(stack, 1, Len(stack) - 1)
      /\ results' = Append(results, r)
  BY DEF Return, Pop
<1>5. /\ Len(stack') = Len(stack) - 1
      /\ \A k \in 1..Len(stack') : k \in 1..Len(stack) /\ stack'[k] = stack[k]
  BY <1>1, <1>4, PopType
<1>. HIDE DEF r
<1>6. /\ Len(results') = Len(results) + 1
      /\ \A k \in 1..Len(results') :
             \/ k \in 1..Len(results) /\ results'[k] = results[k]
             \/ results'[k] = r
  BY <1>1, <1>3, <1>4, AppendType
<1>. QED
  BY <1>5, <1>6 DEF r

(* A step keeps the types.                                                 *)
LEMMA TypeStep ==
    ASSUME TypeOK, [Next]_vars
    PROVE  TypeOK'
<1>1. CASE EditAddress
  BY <1>1 DEF EditAddress, TypeOK
<1>2. ASSUME NEW name \in Options, OpenOption(name) PROVE TypeOK'
  <2>1. [name |-> name, tx |-> NoTransaction, asked |-> asked] \in Screen
    BY DEF Screen, TypeOK
  <2>2. stack' \in Seq(Screen)
    BY <1>2, <2>1, AppendType DEF OpenOption, TypeOK
  <2>. QED
    BY <1>2, <2>2 DEF OpenOption, TypeOK
<1>3. CASE Send
  <2>1. Wanted \in Choice
    BY DEF Wanted, TypeOK, Choice
  <2>2. stack' \in Seq(Screen)
    <3>1. CASE stack' = stack
      BY <3>1 DEF TypeOK
    <3>2. CASE /\ transaction' \in Transaction
               /\ stack' = Append(stack, [name |-> "confirmation", tx |-> transaction',
                                          asked |-> Wanted])
      <4>1. [name |-> "confirmation", tx |-> transaction', asked |-> Wanted] \in Screen
        BY <2>1, <3>2 DEF Screen
      <4>. QED
        BY <3>2, <4>1, AppendType DEF TypeOK
    <3>. QED
      BY <1>3, <3>1, <3>2, SendEffect DEF Send
  <2>3. transaction' \in Transaction \cup {NoTransaction}
    BY <1>3, SendEffect DEF Send
  <2>4. retapped' \in BOOLEAN
    BY <1>3 DEF Send, Confirming
  <2>. QED
    BY <1>3, <2>2, <2>3, <2>4 DEF Send, TypeOK
<1>4. CASE Pause \/ Resume \/ OnBackPressed
  BY <1>4 DEF Pause, Resume, OnBackPressed, TypeOK
<1>5. CASE Cancel
  <2>1. stack' \in Seq(Screen)
    BY <1>5, PopType DEF Cancel, Pop, TypeOK
  <2>. QED
    BY <1>5, <2>1 DEF Cancel, TypeOK
<1>6. CASE Approve
  <2>1. confirmed' \subseteq Transaction
    BY <1>6 DEF Approve, TypeOK
  <2>2. \E data, wish \in Choice : Return(data, wish)
    BY <1>6, ChoiceType
    DEF Approve, ApproveOutputs, ApproveInputs, ApproveFee, ApproveChange
  <2>. QED
    BY <1>6, <2>1, <2>2, ReturnType DEF Approve
<1>7. CASE Confirm
  <2>1. Top \in Screen
    BY <1>7, PopType DEF Confirm, Top, TypeOK
  <2>2. confirmed' \subseteq Transaction
    BY <1>7, <2>1 DEF Confirm, Screen, TypeOK, Options
  <2>. QED
    BY <1>7, <2>2, ChoiceType, ReturnType DEF Confirm
<1>8. CASE OnActivityResult
  <2>1. results' \in Seq(Result) /\ Head(results) \in Result
    BY <1>8, TailType DEF OnActivityResult, TypeOK
  <2>2. choice' \in Choice /\ asked' \in Choice
    BY <1>8, <2>1, TakeType DEF OnActivityResult, TypeOK
  <2>3. committed' \subseteq Transaction /\ finished' \in BOOLEAN
    BY <1>8 DEF OnActivityResult, SendConfirmed, TypeOK
  <2>. QED
    BY <1>8, <2>1, <2>2, <2>3 DEF OnActivityResult, TypeOK
<1>9. CASE Recreate
  BY <1>9, ChoiceType DEF Recreate, TypeOK
<1>10. CASE UNCHANGED vars
  BY <1>10 DEF vars, TypeOK
<1>. QED
  BY <1>1, <1>2, <1>3, <1>4, <1>5, <1>6, <1>7, <1>8, <1>9, <1>10 DEF Next

LEMMA TypeInit == Init => TypeOK
<1>. SUFFICES ASSUME Init PROVE TypeOK
  OBVIOUS
<1>1. choice \in Choice /\ asked \in Choice
  BY ChoiceType DEF Init
<1>2. resumed \in BOOLEAN /\ finished \in BOOLEAN /\ retapped \in BOOLEAN
  BY Zenon DEF Init
<1>3. stack \in Seq(Screen) /\ results \in Seq(Result)
  BY DEF Init
<1>4. /\ typed \in Destination \cup {NoAddress}
      /\ transaction \in Transaction \cup {NoTransaction}
      /\ confirmed \subseteq Transaction /\ committed \subseteq Transaction
      /\ opened \in Nat /\ sends \in Nat
  BY DEF Init
<1>. QED
  BY <1>1, <1>2, <1>3, <1>4 DEF TypeOK

(* Every state is well typed.                                              *)
THEOREM TypeCorrect == Spec => []TypeOK
<1>. QED
  BY TypeInit, TypeStep, PTL DEF Spec

----------------------------------------------------------------------------
(* What has been committed has been confirmed, as long as Send was not     *)
(* clicked again before its confirmation covered the screen.               *)
LEMMA ConfirmStep ==
    ASSUME ConfirmInv, [Next]_vars
    PROVE  ConfirmInv'
<1>. USE DEF ConfirmInv
<1>0. /\ stack \in Seq(Screen) /\ results \in Seq(Result)
      /\ TypeOK'
      /\ Len(stack) \in Nat /\ Len(results) \in Nat
  BY TypeStep DEF TypeOK
<1>1. CASE EditAddress \/ Pause \/ Resume \/ Recreate \/ OnBackPressed
  BY <1>0, <1>1 DEF EditAddress, Pause, Resume, Recreate, OnBackPressed, ResultsWait,
                    FieldIsShown, CommittedWasConfirmed
<1>2. ASSUME NEW name \in Options, OpenOption(name) PROVE ConfirmInv'
  <2> DEFINE e == [name |-> name, tx |-> NoTransaction, asked |-> asked]
  <2>1. e \in Screen /\ e.name # "confirmation"
    BY DEF Screen, Options, TypeOK
  <2>2. FieldIsShown'
    BY <1>0, <1>2, <2>1, AppendType DEF OpenOption, FieldIsShown
  <2>. QED
    BY <1>0, <1>2, <2>2 DEF OpenOption, ResultsWait, CommittedWasConfirmed
<1>3. CASE Send
  <2>1. SimpleSend \/ CustomSend
    BY <1>3 DEF Send
  <2>2. results = <<>> /\ results' = <<>> /\ resumed' = resumed
    BY <1>3 DEF Send, ResultsWait
  <2>3. ASSUME ~retapped' PROVE FieldIsShown'
    <3>1. \A k \in 1..Len(stack) : stack[k].name # "confirmation"
      BY <1>3, <2>3 DEF Send, Confirming
    <3>2. CASE stack' = stack
      BY <2>2, <3>1, <3>2 DEF FieldIsShown
    <3>3. CASE /\ transaction' \in Transaction
               /\ stack' = Append(stack, [name |-> "confirmation", tx |-> transaction',
                                          asked |-> Wanted])
      <4>1. Wanted \in Choice
        BY DEF Wanted, TypeOK, Choice
      <4> DEFINE e == [name |-> "confirmation", tx |-> transaction', asked |-> Wanted]
      <4>2. e \in Screen /\ e.tx = transaction'
        BY <3>3, <4>1 DEF Screen
      <4>. HIDE DEF e
      <4>3. \A k \in 1..Len(stack') : k \in 1..Len(stack) \/ k = Len(stack) + 1
        BY <1>0, <3>3, <4>2, AppendType DEF e
      <4>4. \A k \in 1..Len(stack) : stack'[k] = stack[k]
        BY <1>0, <3>3, <4>2, AppendType DEF e
      <4>5. stack'[Len(stack) + 1].tx = transaction'
        BY <1>0, <3>3, <4>2, AppendType DEF e
      <4>. QED
        BY <2>2, <3>1, <4>3, <4>4, <4>5 DEF FieldIsShown
    <3>. QED
      BY <2>1, <3>2, <3>3, SendEffect
  <2>. QED
    BY <1>0, <1>3, <2>2, <2>3 DEF Send, ResultsWait, FieldIsShown, CommittedWasConfirmed
<1>4. CASE Cancel
  <2>1. FieldIsShown'
    BY <1>0, <1>4, PopType DEF Cancel, Pop, FieldIsShown
  <2>. QED
    BY <1>0, <1>4, <2>1 DEF Cancel, ResultsWait, CommittedWasConfirmed
<1>5. CASE Approve
  <2>1. PICK data, wish \in Choice : Return(data, wish)
    BY <1>5, ChoiceType
    DEF Approve, ApproveOutputs, ApproveInputs, ApproveFee, ApproveChange
  <2>2. stack # <<>> /\ Top.name # "confirmation" /\ ~resumed /\ confirmed' = confirmed
    BY <1>5 DEF Approve
  <2>3. FieldIsShown'
    BY <1>0, <2>1, <2>2, ReturnEffect DEF FieldIsShown, Return
  <2>. QED
    BY <1>0, <2>1, <2>2, <2>3 DEF Return, ResultsWait, CommittedWasConfirmed
<1>6. CASE Confirm
  <2>1. Return(NoChoice, NoChoice) /\ NoChoice \in Choice
    BY <1>6, ChoiceType DEF Confirm
  <2>2. /\ stack # <<>> /\ Top.name = "confirmation" /\ ~resumed
        /\ confirmed' = confirmed \cup {Top.tx}
    BY <1>6 DEF Confirm
  <2>3. ~retapped => Top.tx = transaction
    BY <1>0, <2>2 DEF Top, FieldIsShown
  <2>4. FieldIsShown'
    BY <1>0, <2>1, <2>2, <2>3, ReturnEffect DEF FieldIsShown, Return
  <2>. QED
    BY <1>0, <2>1, <2>2, <2>4 DEF Return, ResultsWait, CommittedWasConfirmed
<1>7. CASE OnActivityResult
  <2>1. /\ UNCHANGED <<transaction, resumed, stack, retapped, confirmed>>
        /\ results # <<>> /\ results' = Tail(results) /\ ~resumed
    BY <1>7 DEF OnActivityResult
  <2>2. FieldIsShown'
    BY <1>0, <2>1, TailType DEF FieldIsShown
  <2>3. CASE UNCHANGED committed
    BY <1>0, <2>1, <2>2, <2>3 DEF ResultsWait, CommittedWasConfirmed
  <2>4. CASE /\ results[1].of = "confirmation"
             /\ committed' = committed \cup {transaction}
    BY <1>0, <2>1, <2>2, <2>4 DEF ResultsWait, FieldIsShown, CommittedWasConfirmed
  <2>. QED
    BY <1>0, <1>7, <2>1, <2>3, <2>4, TailType DEF OnActivityResult, SendConfirmed
<1>8. CASE UNCHANGED vars
  BY <1>8 DEF vars, TypeOK, ResultsWait, FieldIsShown, CommittedWasConfirmed
<1>. QED
  BY <1>1, <1>2, <1>3, <1>4, <1>5, <1>6, <1>7, <1>8 DEF Next

(* Nothing is committed that the user did not confirm with the PIN, unless *)
(* Send was clicked twice.                                                 *)
THEOREM CommitsOnlyConfirmed == Spec => []CommittedWasConfirmed
<1>1. Init => ConfirmInv
  BY TypeInit DEF Init, ConfirmInv, ResultsWait, FieldIsShown, CommittedWasConfirmed
<1>2. ConfirmInv => CommittedWasConfirmed
  BY DEF ConfirmInv
<1>. QED
  BY <1>1, <1>2, ConfirmStep, PTL DEF Spec

----------------------------------------------------------------------------
(* What send() shows is a transaction that fits what the user asked for.   *)
LEMMA ShownFits ==
    ASSUME ChoiceInv, SimpleSend \/ CustomSend
    PROVE  stack' = stack \/ Fits(transaction', Wanted)
<1>1. /\ choice \in Choice /\ asked \in Choice /\ typed \in Destination \cup {NoAddress}
      /\ Follows(choice, asked)
  BY DEF ChoiceInv, TypeOK
<1>2. /\ Wanted.unspent = choice.unspent /\ Wanted.fee = choice.fee
      /\ Wanted.changeToOrigin = choice.changeToOrigin
      /\ Wanted.outputs = Outputs
  BY <1>1 DEF Wanted, Outputs, Follows, Choice
<1>. DEFINE FeeFits(tx) == tx.fee = choice.fee \/ choice.fee = "total"
<1>3. CASE SimpleSend
  <2>1. /\ choice.changeAddress = NoAddress /\ Outputs = {typed}
    BY <1>1, <1>3 DEF SimpleSend, Follows, Outputs
  <2>2. \/ Abort(transaction)
        \/ \E tx \in Completed({typed}, {}, Receive) : CheckOrigin(tx, Receive)
    BY <1>3, <2>1 DEF SimpleSend
  <2>3. ASSUME NEW tx \in Completed({typed}, {}, Receive), CheckOrigin(tx, Receive)
        PROVE  stack' = stack \/ Fits(transaction', Wanted)
    <3>1. /\ tx.pays = Outputs /\ FeeFits(tx)
          /\ choice.unspent \subseteq tx.inputs
      BY <1>3, <2>1 DEF Completed, GetFee, SimpleSend
    <3>2. CASE choice.changeToOrigin
      <4> DEFINE moved == MoveChange(tx, Receive)
      <4>1. \/ stack' = stack
            \/ \E again \in CompletedAgain(moved) : transaction' = again
        BY <2>3, <3>2 DEF CheckOrigin, Show, Abort
      <4>2. /\ moved.pays = Outputs \ {Receive}
            /\ moved.inputs = tx.inputs
            /\ moved.change = "origin"
        BY <3>1 DEF MoveChange, Completed
      <4>. HIDE DEF moved
      <4>3. ASSUME NEW again \in CompletedAgain(moved)
            PROVE  /\ again.pays = Outputs \ {Receive}
                   /\ choice.unspent \subseteq again.inputs
                   /\ again.change \in {"origin", "split"}
        BY <3>1, <4>2 DEF CompletedAgain
      <4>. QED
        BY <1>2, <3>2, <4>1, <4>3 DEF Fits
    <3>3. CASE ~choice.changeToOrigin
      BY <1>2, <2>3, <3>1, <3>3 DEF CheckOrigin, Show, Fits
    <3>. QED
      BY <3>2, <3>3
  <2>. QED
    BY <2>2, <2>3 DEF Abort
<1>4. CASE CustomSend
  <2>1. \/ stack' = stack
        \/ \E tx \in Completed(Outputs, choice.unspent, "own") : CheckOrigin(tx, NoAddress)
    BY <1>1, <1>4 DEF CustomSend, Abort, Follows
  <2>2. ASSUME NEW tx \in Completed(Outputs, choice.unspent, "own"),
               CheckOrigin(tx, NoAddress)
        PROVE  stack' = stack \/ Fits(transaction', Wanted)
    <3>1. /\ tx.pays = Outputs /\ FeeFits(tx)
          /\ choice.unspent \subseteq tx.inputs
          /\ tx.change \in {"own", "none"}
      BY DEF Completed, GetFee
    <3>2. ~HasOutputTo(tx, NoAddress)
      BY <1>1, <3>1, SendAssumption DEF HasOutputTo, Outputs, Choice
    <3>3. CASE choice.changeToOrigin
      BY <2>2, <3>2, <3>3 DEF CheckOrigin, Abort
    <3>4. CASE ~choice.changeToOrigin
      BY <1>2, <2>2, <3>1, <3>4 DEF CheckOrigin, Show, Fits
    <3>. QED
      BY <3>3, <3>4
  <2>. QED
    BY <2>1, <2>2
<1>. QED
  BY <1>3, <1>4

(* Every option screen that sets no change address returns what was wished *)
LEMMA ApproveFollows ==
    ASSUME Approve
    PROVE  \E data, wish \in Choice : Return(data, wish) /\ Follows(data, wish)
<1>1. CASE ApproveOutputs
  BY <1>1, ChoiceType DEF ApproveOutputs, Follows, NoChoice
<1>2. CASE ApproveInputs
  BY <1>2, ChoiceType DEF ApproveInputs, Follows, NoChoice
<1>3. CASE ApproveFee
  BY <1>3, ChoiceType DEF ApproveFee, Follows, NoChoice
<1>4. CASE ApproveChange
  BY <1>4, ChoiceType DEF ApproveChange, Follows, NoChoice
<1>. QED
  BY <1>1, <1>2, <1>3, <1>4 DEF Approve

(* Taking over a result that follows the user's wish keeps the two alike.  *)
LEMMA TakeFollows ==
    ASSUME choice \in Choice, asked \in Choice, Follows(choice, asked),
           NEW r \in Result, Follows(r.data, r.wish),
           \/ TakeOutputs(r) \/ TakeInputs(r) \/ TakeFee(r) \/ TakeChange(r)
           \/ UNCHANGED <<choice, asked>>
    PROVE  Follows(choice', asked')
<1>1. r.data \in Choice /\ r.wish \in Choice
  BY DEF Result
<1>2. CASE TakeOutputs(r)
  BY <1>1, <1>2 DEF TakeOutputs, Choice, Follows
<1>3. CASE TakeInputs(r)
  BY <1>1, <1>3 DEF TakeInputs, Choice, Follows
<1>4. CASE TakeFee(r)
  BY <1>1, <1>4 DEF TakeFee, Choice, Follows
<1>5. CASE TakeChange(r)
  BY <1>1, <1>5 DEF TakeChange, Choice, Follows
<1>. QED
  BY <1>2, <1>3, <1>4, <1>5

LEMMA ChoiceStep ==
    ASSUME ChoiceInv, [Next]_vars
    PROVE  ChoiceInv'
<1>0. /\ TypeOK /\ TypeOK' /\ ShowsWhatWasAsked /\ Follows(choice, asked)
      /\ stack \in Seq(Screen) /\ results \in Seq(Result)
      /\ choice \in Choice /\ asked \in Choice
      /\ Len(stack) \in Nat /\ Len(results) \in Nat
      /\ \A k \in 1..Len(results) : Follows(results[k].data, results[k].wish)
  BY TypeStep DEF ChoiceInv, TypeOK
<1>1. CASE UNCHANGED <<choice, asked, stack, results>>
  BY <1>0, <1>1 DEF ChoiceInv, ShowsWhatWasAsked
<1>2. ASSUME NEW name \in Options, OpenOption(name) PROVE ChoiceInv'
  <2> DEFINE e == [name |-> name, tx |-> NoTransaction, asked |-> asked]
  <2>1. e \in Screen /\ e.name # "confirmation"
    BY <1>0 DEF Screen, Options
  <2>2. stack' = Append(stack, e)
    BY <1>2 DEF OpenOption
  <2>. HIDE DEF e
  <2>3. ShowsWhatWasAsked'
    BY <1>0, <2>1, <2>2, AppendType DEF ShowsWhatWasAsked
  <2>. QED
    BY <1>0, <1>2, <2>3 DEF OpenOption, ChoiceInv
<1>3. CASE Send
  <2>1. UNCHANGED <<choice, asked, results>> /\ (SimpleSend \/ CustomSend)
    BY <1>3 DEF Send
  <2>2. CASE stack' = stack
    BY <1>0, <2>1, <2>2 DEF ChoiceInv, ShowsWhatWasAsked
  <2>3. CASE stack' # stack
    <3> DEFINE e == [name |-> "confirmation", tx |-> transaction', asked |-> Wanted]
    <3>1. Wanted \in Choice
      BY <1>0 DEF Wanted, TypeOK, Choice
    <3>2. stack' = Append(stack, e) /\ transaction' \in Transaction
      BY <1>0, <2>1, <2>3, SendEffect
    <3>3. e \in Screen
      BY <3>1, <3>2 DEF Screen
    <3>4. Fits(e.tx, e.asked)
      BY <2>1, <2>3, ShownFits
    <3>. HIDE DEF e
    <3>5. ShowsWhatWasAsked'
      BY <1>0, <3>2, <3>3, <3>4, AppendType DEF ShowsWhatWasAsked
    <3>. QED
      BY <1>0, <2>1, <3>5 DEF ChoiceInv
  <2>. QED
    BY <2>2, <2>3
<1>4. CASE Cancel
  <2>1. ShowsWhatWasAsked'
    BY <1>0, <1>4, PopType DEF Cancel, Pop, ShowsWhatWasAsked
  <2>. QED
    BY <1>0, <1>4, <2>1 DEF Cancel, ChoiceInv
<1>5. CASE Approve \/ Confirm
  <2>1. Follows(NoChoice, NoChoice)
    BY DEF Follows, NoChoice
  <2>2. PICK data, wish \in Choice : Return(data, wish) /\ Follows(data, wish)
    BY <1>5, <2>1, ApproveFollows, ChoiceType DEF Confirm
  <2>3. stack # <<>> /\ UNCHANGED <<choice, asked>>
    BY <1>5, <2>2 DEF Approve, Confirm, Return
  <2>4. ShowsWhatWasAsked'
    BY <1>0, <2>2, <2>3, ReturnEffect DEF ShowsWhatWasAsked
  <2>5. (\A k \in 1..Len(results) : Follows(results[k].data, results[k].wish))'
    <3>1. \A k \in 1..Len(results') :
              \/ k \in 1..Len(results) /\ results'[k] = results[k]
              \/ results'[k] = [of |-> Top.name, data |-> data, wish |-> wish]
      BY <1>0, <2>2, <2>3, ReturnEffect
    <3>2. ASSUME NEW k \in 1..Len(results')
          PROVE  Follows(results'[k].data, results'[k].wish)
      <4>1. CASE k \in 1..Len(results) /\ results'[k] = results[k]
        BY <1>0, <4>1
      <4>2. CASE results'[k] = [of |-> Top.name, data |-> data, wish |-> wish]
        BY <2>2, <4>2
      <4>. QED
        BY <3>1, <4>1, <4>2
    <3>. QED
      BY <3>2
  <2>. QED
    BY <1>0, <2>3, <2>4, <2>5 DEF ChoiceInv
<1>6. CASE OnActivityResult
  <2>1. stack' = stack /\ results # <<>> /\ results' = Tail(results)
    BY <1>6 DEF OnActivityResult
  <2>2. /\ Head(results) \in Result /\ Follows(Head(results).data, Head(results).wish)
        /\ (\A k \in 1..Len(results) : Follows(results[k].data, results[k].wish))'
    BY <1>0, <2>1, TailType
  <2>3. Follows(choice', asked')
    BY <1>0, <1>6, <2>2, TakeFollows DEF OnActivityResult
  <2>. QED
    BY <1>0, <2>1, <2>2, <2>3 DEF ChoiceInv, ShowsWhatWasAsked
<1>7. CASE Recreate
  BY <1>0, <1>7 DEF Recreate, ChoiceInv, ShowsWhatWasAsked, Follows, NoChoice
<1>. QED
  BY <1>1, <1>2, <1>3, <1>4, <1>5, <1>6, <1>7
  DEF Next, vars, EditAddress, Pause, Resume, OnBackPressed

(* Every confirmation shows a transaction that fits what the user asked    *)
(* for, but for the change address.                                        *)
THEOREM ShowsOnlyAsked == Spec => []ShowsWhatWasAsked
<1>1. Init => ChoiceInv
  BY TypeInit DEF Init, ChoiceInv, ShowsWhatWasAsked, Follows, NoChoice
<1>2. ChoiceInv => ShowsWhatWasAsked
  BY DEF ChoiceInv
<1>. QED
  BY <1>1, <1>2, ChoiceStep, PTL DEF Spec
=============================================================================
