---------------------------- MODULE CommandLedger ----------------------------
(* What a watch promises about the reservation commands it sends, without   *)
(* candidates, observations, budgets or logins: a ledger with one entry per *)
(* command. A command is sent only when no other one can own a reservation, *)
(* an answer is never taken back, a command is recovered from once, and     *)
(* proof of payment ends the ledger. ReservationFence implements it.        *)
EXTENDS Naturals, Sequences

VARIABLES
    ledger,     \* the commands sent, in order: how each was answered, and
                \* which one it recovers from, 0 for none
    abandoned   \* commands the watch stopped waiting for before their answer

(* What an answer may still become. A command without an answer is open; an *)
(* unknown or absent one was looked up in the official list.                *)
Later == [open    |-> {"unknown", "held", "refused", "paid"},
          unknown |-> {"held", "absent", "paid"},
          held    |-> {"paid"},
          refused |-> {"paid"},
          absent  |-> {"paid"},
          paid    |-> {}]

Entries == DOMAIN ledger

Recovered(a) == \E b \in Entries : ledger[b].recovers = a

(* The watch had stopped waiting for a command as old as a or older.        *)
Excused(a) == \E x \in abandoned : x <= a

Init == ledger = <<>> /\ abandoned = {}

(* A command, for its own sake or in place of one whose answer is not known *)
(* or was not found on the list.                                            *)
Send(source) ==
    /\ \A a \in Entries :
         /\ ledger[a].answer # "paid"
         /\ ledger[a].answer = "open" => Excused(a)
         /\ ledger[a].answer = "unknown" => a = source \/ Recovered(a)
    /\ source # 0 => /\ source \in Entries
                     /\ ledger[source].answer \in {"unknown", "absent"}
                     /\ ~Recovered(source)
    /\ ledger' = Append(ledger, [answer |-> "open", recovers |-> source])
    /\ UNCHANGED abandoned

(* The newest command turns out not to have been sent.                      *)
Withdraw ==
    /\ ledger # <<>>
    /\ ledger[Len(ledger)].answer = "open"
    /\ ledger' = SubSeq(ledger, 1, Len(ledger) - 1)
    /\ UNCHANGED abandoned

(* The watch may stop waiting for the open commands.                        *)
MayAbandon ==
    \/ UNCHANGED abandoned
    \/ abandoned' = abandoned \cup {a \in Entries' : ledger'[a].answer = "open"}

Answer(a) ==
    /\ \E answer \in Later[ledger[a].answer] :
         ledger' = [ledger EXCEPT ![a].answer = answer]
    /\ MayAbandon

Next ==
    \/ UNCHANGED ledger /\ MayAbandon
    \/ \E a \in Entries : Answer(a)
    \/ \E source \in {0} \cup Entries : Send(source)
    \/ Withdraw

Spec == Init /\ [][Next]_<<ledger, abandoned>>

(* At most one command may own a reservation the watch does not know of: it *)
(* is open, or unknown and not recovered from; until the watch has stopped  *)
(* waiting for a command.                                                   *)
MayOwn(a) ==
    \/ ledger[a].answer = "open"
    \/ ledger[a].answer = "unknown" /\ ~Recovered(a)

OneOwner == \A a, b \in Entries : MayOwn(a) /\ MayOwn(b) /\ a < b => Excused(a)
==============================================================================
