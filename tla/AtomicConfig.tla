---------------------------- MODULE AtomicConfig ----------------------------
(***************************************************************************)
(* What the panel promises of the configuration, with no steps in between: *)
(* one content in effect, at most one candidate beside it, and a candidate *)
(* that takes effect as a whole or leaves the content in effect alone.     *)
(***************************************************************************)
CONSTANTS Configs

VARIABLES
  formal,   \* the content in effect
  desired,  \* the content the user edits: the candidate, or the one in effect
  status    \* "settled", or the candidate is "pending" or "failed"

cfgVars == <<formal, desired, status>>

Init == /\ formal \in Configs
        /\ desired = formal
        /\ status = "settled"

\* A new candidate; an earlier one is given up.
Propose == /\ desired' \in Configs
           /\ status' = "pending"
           /\ UNCHANGED formal

\* The candidate takes effect.
Commit == /\ status # "settled"
          /\ formal' = desired
          /\ status' = "settled"
          /\ UNCHANGED desired

\* The candidate is refused and stays the content to edit.
Refuse == /\ status # "settled"
          /\ status' = "failed"
          /\ UNCHANGED <<formal, desired>>

\* The candidate is deleted from the history.
Withdraw == /\ status # "settled"
            /\ desired' = formal
            /\ status' = "settled"
            /\ UNCHANGED formal

\* The panel's own update of Geo data or blocklists, and its rollback.
Replace == /\ formal' \in Configs
           /\ desired' = formal'
           /\ status' = "settled"

Next == Propose \/ Commit \/ Refuse \/ Withdraw \/ Replace

Spec == Init /\ [][Next]_cfgVars
=============================================================================
