---------------------------- MODULE MCAccounts ----------------------------
(* The instance of Accounts for TLC: one account at the start, with a link *)
(* already mailed to it, and open invites.  Or else of Recommendations:    *)
(* one user, every answer of the model over two shows, two overlapping     *)
(* passes and two changes by the user.  The two share no state and every   *)
(* property is about one of them: a behaviour is of accounts or of weeks.  *)
EXTENDS Accounts, Recommendations, TLC

CONSTANTS alice, e1, h1

VARIABLE half

OneFounder == alice :> [email |-> e1, handle |-> h1]
OpenInvites == [i \in Invites |-> AnyEmail]
Symmetry == Permutations(Requests) \cup Permutations(Handles \ {h1})

HalvesInit ==
    /\ Init /\ WeeklyInit
    /\ \/ half = "accounts" /\ record = [u \in Readers |-> {}]
       \/ half = "weeks" /\ token[First].purpose = Reset

AccountsStep == half = "accounts" /\ Next /\ UNCHANGED weeklyVars
WeeksStep == half = "weeks" /\ WeeklyNext /\ UNCHANGED vars

HalvesSpec ==
    HalvesInit /\ [][(AccountsStep \/ WeeksStep) /\ UNCHANGED half]_<<vars, weeklyVars, half>>

=============================================================================
