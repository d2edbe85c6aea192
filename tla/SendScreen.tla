----------------------------- MODULE SendScreen -----------------------------
(***************************************************************************)
(* The send screen for PIV: SendActivity, the screens it opens for its     *)
(* options (several outputs, coin control, fee, change address), and the   *)
(* confirmation screen with its PIN.                                       *)
(*                                                                         *)
(* SendActivity takes clicks until Android pauses it, so a second click    *)
(* may come in after a first one asked for another screen; the screens     *)
(* pile up, and their results reach onActivityResult, in the order in      *)
(* which the screens finished, when the send screen is on top again.       *)
(* While it is covered Android may destroy and recreate it.                *)
(*                                                                         *)
(* Amounts are left out: a transaction is who it pays, what it spends,     *)
(* where its change goes and which fee it pays.  The library completes a   *)
(* transaction with any further coins, or finds that money is missing.     *)
(***************************************************************************)
EXTENDS Naturals, Sequences

CONSTANTS
    Address,      \* addresses of others
    Receive,      \* the receive address of this wallet, also a destination
    NoAddress,    \* null, or an empty field
    NoTransaction,\* null
    Coin,         \* the unspent outputs of the wallet
    MaxScreens,   \* bound on the screens over the send screen
    MaxOptions,   \* bound on the times an option screen is opened
    MaxSends      \* bound on the transactions that are built

Destination == Address \cup {Receive}

VARIABLES
    typed,        \* the address field
    choice,       \* outputWrappers, unspent, customFee, changeAddress, changeToOrigin
    asked,        \* history: the same as the user approved it in the option screens
    transaction,  \* field transaction
    resumed,      \* does the send screen take clicks?
    finished,     \* has it called finish()?
    stack,        \* the screens over it
    results,      \* what these screens returned
    opened,       \* how many option screens were opened
    sends,        \* how many transactions were built
    retapped,     \* history: was Send clicked again before the confirmation covered it?
    confirmed,    \* history: the transactions confirmed with the PIN
    committed     \* the transactions committed to the wallet and broadcast

vars == <<typed, choice, asked, transaction, resumed, finished, stack, results,
          opened, sends, retapped, confirmed, committed>>

Options == {"outputs", "inputs", "fee", "change"}

(* What the fee screen offers, and at which rate per kilobyte a            *)
(* transaction may be completed: there is no rate for a total.             *)
Fee  == {"default", "minimum", "perKb", "total"}
Rate == Fee \ {"total"}

Choice == [outputs : SUBSET Destination, unspent : SUBSET Coin, fee : Fee,
           changeAddress : Address \cup {NoAddress}, changeToOrigin : BOOLEAN]

NoChoice == [outputs |-> {}, unspent |-> {}, fee |-> "default",
             changeAddress |-> NoAddress, changeToOrigin |-> FALSE]

(* "own" is an address the library takes for the change when it is given   *)
(* none, "split" change that goes to the origin and to such an address.  A *)
(* transaction is complete once the library has completed it.              *)
Transaction ==
    [pays : SUBSET Destination, inputs : SUBSET Coin, fee : Rate, complete : BOOLEAN,
     change : Destination \cup {"own", "origin", "split", "none"}]

ASSUME SendAssumption ==
    /\ NoAddress \notin Destination
    /\ Receive \notin Address
    /\ {"own", "origin", "split", "none"} \cap (Destination \cup {NoAddress}) = {}
    /\ NoTransaction \notin Transaction
    /\ MaxScreens \in Nat /\ MaxOptions \in Nat /\ MaxSends \in Nat

Screen == [name : Options, tx : {NoTransaction}, asked : Choice]
          \cup [name : {"confirmation"}, tx : Transaction, asked : Choice]
Result == [of : Options \cup {"confirmation"}, data : Choice, wish : Choice]

----------------------------------------------------------------------------
Init ==
    /\ typed = NoAddress
    /\ choice = NoChoice /\ asked = NoChoice
    /\ transaction = NoTransaction
    /\ resumed = TRUE /\ finished = FALSE
    /\ stack = <<>> /\ results = <<>>
    /\ opened = 0 /\ sends = 0
    /\ retapped = FALSE
    /\ confirmed = {} /\ committed = {}

(* The user types or scans an address, or clears the fields.               *)
EditAddress ==
    /\ resumed
    /\ \E a \in Destination \cup {NoAddress} : typed' = a
    /\ UNCHANGED <<choice, asked, transaction, resumed, finished, stack, results,
                   opened, sends, retapped, confirmed, committed>>

(* Coin control wants an amount, which is there with an address or outputs *)
OpenOption(name) ==
    /\ resumed
    /\ Len(stack) < MaxScreens /\ opened < MaxOptions
    /\ name = "inputs" => typed # NoAddress \/ choice.outputs # {}
    /\ stack' = Append(stack, [name |-> name, tx |-> NoTransaction, asked |-> asked])
    /\ opened' = opened + 1
    /\ UNCHANGED <<typed, choice, asked, transaction, resumed, finished, results,
                   sends, retapped, confirmed, committed>>

----------------------------------------------------------------------------
(* send(): the transaction is kept in the field as it is being built.      *)

Abort(tx) ==
    /\ transaction' = tx
    /\ stack' = stack

(* Who is to be paid, as the user sees it: the approved outputs hide the   *)
(* address field.                                                          *)
Wanted == IF asked.outputs # {} THEN asked
          ELSE [asked EXCEPT !.outputs = {typed} \ {NoAddress}]

Show(tx) ==
    /\ transaction' = tx
    /\ stack' = Append(stack, [name |-> "confirmation", tx |-> tx, asked |-> Wanted])

HasOutputTo(tx, address) == tx.change = address \/ address \in tx.pays

(* Every output to the current change address gives way to one output to   *)
(* the origin.  The code fails without such an output, and with an origin  *)
(* that the wallet does not know.                                          *)
MoveChange(tx, current) ==
    [tx EXCEPT !.pays = @ \ {current}, !.change = "origin"]

(* The transaction with the moved change is completed once more, by a call *)
(* that is given neither the fee nor a change address: it may add coins,   *)
(* take the default rate, and send what is left over to an address of its  *)
(* own.                                                                    *)
CompletedAgain(tx) ==
    [pays : {tx.pays}, inputs : {s \in SUBSET Coin : tx.inputs \subseteq s},
     fee : {tx.fee, "default"}, complete : {TRUE}, change : {tx.change, "split"}]

CheckOrigin(tx, current) ==
    \/ ~choice.changeToOrigin /\ Show(tx)
    \/ choice.changeToOrigin /\ Abort(tx)
    \/ /\ choice.changeToOrigin /\ HasOutputTo(tx, current)
       /\ LET moved == MoveChange(tx, current)
          IN Abort(moved) \/ \E again \in CompletedAgain(moved) : Show(again)

(* An amount that was meant for the whole transaction is passed on as if   *)
(* it were one per kilobyte.                                               *)
GetFee == IF choice.fee = "total" THEN "perKb" ELSE choice.fee

(* What the library may make of outputs, inputs and a change address; with *)
(* luck there is no change.                                                *)
Completed(pays, inputs, change) ==
    [pays : {pays}, inputs : {s \in SUBSET Coin : inputs \subseteq s /\ s # {}},
     fee : {GetFee}, complete : {TRUE}, change : {change, "none"}]

(* One address and no chosen coins; if money is missing the field stays.   *)
SimpleSend ==
    /\ choice.outputs = {} /\ choice.unspent = {}
    /\ typed # NoAddress
    /\ LET current == IF choice.changeAddress # NoAddress
                      THEN choice.changeAddress ELSE Receive
       IN \/ Abort(transaction)
          \/ \E tx \in Completed({typed}, {}, current) : CheckOrigin(tx, current)

Outputs == IF choice.outputs # {} THEN choice.outputs ELSE {typed} \ {NoAddress}

(* Here the test on changeAddress is the other way round.  The transaction *)
(* under construction is in the field before anything can fail.            *)
CustomSend ==
    /\ choice.outputs # {} \/ choice.unspent # {}
    /\ LET current == IF choice.changeAddress = NoAddress THEN NoAddress ELSE Receive
           change  == IF current = NoAddress THEN "own" ELSE current
           begun   == [pays |-> Outputs, inputs |-> choice.unspent, fee |-> "default",
                       complete |-> FALSE, change |-> "none"]
       IN \/ Abort([begun EXCEPT !.inputs = {}])
          \/ Abort(begun)
          \/ /\ Outputs # {}
             /\ \E tx \in Completed(Outputs, choice.unspent, change) :
                    CheckOrigin(tx, current)

Confirming == \E k \in 1..Len(stack) : stack[k].name = "confirmation"

Send ==
    /\ resumed
    /\ Len(stack) < MaxScreens /\ sends < MaxSends
    /\ SimpleSend \/ CustomSend
    /\ sends' = sends + 1
    /\ retapped' = (retapped \/ Confirming)
    /\ UNCHANGED <<typed, choice, asked, resumed, finished, results, opened,
                   confirmed, committed>>

----------------------------------------------------------------------------
Pause ==
    /\ resumed /\ stack # <<>>
    /\ resumed' = FALSE
    /\ UNCHANGED <<typed, choice, asked, transaction, finished, stack, results,
                   opened, sends, retapped, confirmed, committed>>

(* The screen on top finishes, with a result or without one.               *)
Top == stack[Len(stack)]
Pop == stack' = SubSeq(stack, 1, Len(stack) - 1)

(* Mutant: the cancelled confirmation counts as RESULT_OK.                 *)
CancelReturns ==
    /\ ~resumed /\ stack # <<>>
    /\ Pop
    /\ results' = Append(results, [of |-> Top.name, data |-> NoChoice, wish |-> NoChoice])
    /\ UNCHANGED <<typed, choice, asked, transaction, resumed, finished,
                   opened, sends, retapped, confirmed, committed>>

Cancel ==
    /\ ~resumed /\ stack # <<>>
    /\ Pop
    /\ UNCHANGED <<typed, choice, asked, transaction, resumed, finished, results,
                   opened, sends, retapped, confirmed, committed>>

Return(data, wish) ==
    /\ Pop
    /\ results' = Append(results, [of |-> Top.name, data |-> data, wish |-> wish])
    /\ UNCHANGED <<typed, choice, asked, transaction, resumed, finished, opened,
                   sends, retapped, committed>>

ApproveOutputs ==
    /\ \E pays \in SUBSET Destination :     \* none of them: the default button
           LET data == [NoChoice EXCEPT !.outputs = pays] IN Return(data, data)

ApproveInputs ==
    /\ \E coins \in (SUBSET Coin) \ {{}} :
           LET data == [NoChoice EXCEPT !.unspent = coins] IN Return(data, data)

ApproveFee ==
    /\ \E fee \in Fee :
           LET data == [NoChoice EXCEPT !.fee = fee] IN Return(data, data)

(* OK with an address puts the address into the extra that means "clear".  *)
ApproveChange ==
    \/ Return(NoChoice, NoChoice)
    \/ LET data == [NoChoice EXCEPT !.changeToOrigin = TRUE] IN Return(data, data)
    \/ \E a \in Address : Return(NoChoice, [NoChoice EXCEPT !.changeAddress = a])

Approve ==
    /\ ~resumed /\ stack # <<>>
    /\ \/ Top.name = "outputs" /\ ApproveOutputs
       \/ Top.name = "inputs" /\ ApproveInputs
       \/ Top.name = "fee" /\ ApproveFee
       \/ Top.name = "change" /\ ApproveChange
    /\ UNCHANGED confirmed

(* The PIN is right: the confirmation screen returns RESULT_OK.            *)
Confirm ==
    /\ ~resumed /\ stack # <<>>
    /\ Top.name = "confirmation"
    /\ confirmed' = confirmed \cup {Top.tx}
    /\ Return(NoChoice, NoChoice)

----------------------------------------------------------------------------
(* onActivityResult                                                        *)

(* Mutant: clearing the outputs keeps the list of the previous approval.   *)
TakeOutputsKept(r) ==
    /\ choice' = IF r.data.outputs = {} THEN choice
                 ELSE [choice EXCEPT !.outputs = r.data.outputs]
    /\ asked' = [asked EXCEPT !.outputs = r.wish.outputs]

TakeOutputs(r) ==
    /\ choice' = [choice EXCEPT !.outputs = r.data.outputs]
    /\ asked' = [asked EXCEPT !.outputs = r.wish.outputs]

(* A coin may have been spent meanwhile: the user is told, nothing changes *)
TakeInputs(r) ==
    \/ /\ choice' = [choice EXCEPT !.unspent = r.data.unspent]
       /\ asked' = [asked EXCEPT !.unspent = r.wish.unspent]
    \/ UNCHANGED <<choice, asked>>

TakeFee(r) ==
    /\ choice' = [choice EXCEPT !.fee = r.data.fee]
    /\ asked' = [asked EXCEPT !.fee = r.wish.fee]

(* Mutant: the default button stores an address as if it had been chosen.  *)
TakeChangeOwn(r) ==
    /\ choice' = [choice EXCEPT
           !.changeAddress  = IF r.data.changeToOrigin THEN NoAddress ELSE Receive,
           !.changeToOrigin = r.data.changeToOrigin]
    /\ asked' = [asked EXCEPT !.changeAddress  = r.wish.changeAddress,
                              !.changeToOrigin = r.wish.changeToOrigin]

TakeChange(r) ==
    /\ choice' = [choice EXCEPT
           !.changeAddress  = r.data.changeAddress,
           !.changeToOrigin =
               r.data.changeToOrigin \/ (r.data.changeAddress # NoAddress /\ @)]
    /\ asked' = [asked EXCEPT !.changeAddress  = r.wish.changeAddress,
                              !.changeToOrigin = r.wish.changeToOrigin]

(* The library may refuse to commit; the screen stays then.                *)
SendConfirmed ==
    \/ UNCHANGED <<committed, finished>>
    \/ /\ transaction # NoTransaction
       /\ committed' = committed \cup {transaction}
       /\ finished' = TRUE

OnActivityResult ==
    /\ ~resumed /\ stack = <<>> /\ results # <<>>
    /\ results' = Tail(results)
    /\ LET r == Head(results) IN
       \/ r.of = "outputs" /\ TakeOutputs(r) /\ UNCHANGED <<committed, finished>>
       \/ r.of = "inputs" /\ TakeInputs(r) /\ UNCHANGED <<committed, finished>>
       \/ r.of = "fee" /\ TakeFee(r) /\ UNCHANGED <<committed, finished>>
       \/ r.of = "change" /\ TakeChange(r) /\ UNCHANGED <<committed, finished>>
       \/ r.of = "confirmation" /\ SendConfirmed /\ UNCHANGED <<choice, asked>>
    /\ UNCHANGED <<typed, transaction, resumed, stack, opened, sends, retapped, confirmed>>

Resume ==
    /\ ~resumed /\ stack = <<>> /\ results = <<>>
    /\ ~finished
    /\ resumed' = TRUE
    /\ UNCHANGED <<typed, choice, asked, transaction, finished, stack, results,
                   opened, sends, retapped, confirmed, committed>>

(* Android destroys the covered screen and builds it again: the fields of  *)
(* the layout and the saved transaction come back, the options do not.     *)
Recreate ==
    /\ ~resumed /\ ~finished
    /\ choice' = NoChoice /\ asked' = NoChoice
    /\ UNCHANGED <<typed, transaction, resumed, finished, stack, results, opened,
                   sends, retapped, confirmed, committed>>

OnBackPressed ==
    /\ resumed /\ stack = <<>>
    /\ resumed' = FALSE /\ finished' = TRUE
    /\ UNCHANGED <<typed, choice, asked, transaction, stack, results, opened,
                   sends, retapped, confirmed, committed>>

Next ==
    \/ EditAddress \/ \E name \in Options : OpenOption(name)
    \/ Send \/ Pause \/ Cancel \/ Approve \/ Confirm
    \/ OnActivityResult \/ Resume \/ Recreate \/ OnBackPressed

Spec == Init /\ [][Next]_vars

----------------------------------------------------------------------------
TypeOK ==
    /\ typed \in Destination \cup {NoAddress}
    /\ choice \in Choice /\ asked \in Choice
    /\ transaction \in Transaction \cup {NoTransaction}
    /\ resumed \in BOOLEAN /\ finished \in BOOLEAN /\ retapped \in BOOLEAN
    /\ stack \in Seq(Screen) /\ results \in Seq(Result)
    /\ opened \in Nat /\ sends \in Nat
    /\ confirmed \subseteq Transaction /\ committed \subseteq Transaction

(* What is committed is a transaction whose confirmation screen the user   *)
(* saw and confirmed with the PIN, through failed sends, cancelled         *)
(* confirmations and recreations of the screen - as long as Send is not    *)
(* clicked again in the moment before the confirmation covers it.          *)
CommittedWasConfirmed == ~retapped => committed \subseteq confirmed

(* A confirmation shows a transaction that pays whom the user typed or     *)
(* approved in the screen for several outputs, spends the coins and pays   *)
(* the fee approved in theirs, and sends change to the origin if that was  *)
(* asked for.  The exceptions are the code's: a payment to this wallet's   *)
(* own receive address, which the move of the change to the origin takes   *)
(* away; the fee of a transaction whose change was moved, which the second *)
(* completion knows nothing of; and a fee for the whole transaction, which *)
(* is taken for a rate.                                                    *)
Fits(tx, wanted) ==
    /\ \/ tx.pays = wanted.outputs
       \/ wanted.changeToOrigin /\ tx.pays = wanted.outputs \ {Receive}
    /\ wanted.unspent \subseteq tx.inputs
    /\ wanted.fee = tx.fee \/ wanted.fee = "total" \/ wanted.changeToOrigin
    /\ wanted.changeToOrigin => tx.change \in {"origin", "split"}

ShowsWhatWasAsked ==
    \A k \in 1..Len(stack) :
        stack[k].name = "confirmation" => Fits(stack[k].tx, stack[k].asked)

(* "You can customize the change address of your transaction specifing     *)
(* it": a confirmation shows no change that goes anywhere else.            *)
ChangeAsSpecified ==
    \A k \in 1..Len(stack) :
        stack[k].name = "confirmation" /\ stack[k].asked.changeAddress # NoAddress
        => stack[k].tx.change \in {stack[k].asked.changeAddress, "none"}
=============================================================================
