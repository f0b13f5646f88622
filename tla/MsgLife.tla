------------------------------ MODULE MsgLife ------------------------------
(* What vinny promises about the struct ircmsg built for one IRC message:   *)
(* it is shared by the IRC thread that spawns programs for it and by the    *)
(* watcher threads of those programs, a user is let in only while another   *)
(* user still holds the message, and the memory goes away after the last    *)
(* user left.  No register, no mutex and no flag: VinnySpawn implements it. *)
CONSTANTS Messages, Users

VARIABLES mem,      \* mem[m]: the block of message m
          users     \* users[m]: the threads that may still read m

vars == <<mem, users>>

TypeOK == /\ mem \in [Messages -> {"none", "live", "freed"}]
          /\ users \in [Messages -> SUBSET Users]

Init == /\ mem = [m \in Messages |-> "none"]
        /\ users = [m \in Messages |-> {}]

Receive(m, u) == /\ mem[m] = "none"
                 /\ mem' = [mem EXCEPT ![m] = "live"]
                 /\ users' = [users EXCEPT ![m] = {u}]

Join(m, u) == /\ users[m] # {}
              /\ users' = [users EXCEPT ![m] = @ \cup {u}]
              /\ UNCHANGED mem

Leave(m, u) == /\ u \in users[m]
               /\ users' = [users EXCEPT ![m] = @ \ {u}]
               /\ UNCHANGED mem

Free(m) == /\ mem[m] = "live"
           /\ users[m] = {}
           /\ mem' = [mem EXCEPT ![m] = "freed"]
           /\ UNCHANGED users

Next == \E m \in Messages :
          \/ Free(m)
          \/ \E u \in Users : Receive(m, u) \/ Join(m, u) \/ Leave(m, u)

Spec == Init /\ [][Next]_vars
=============================================================================
