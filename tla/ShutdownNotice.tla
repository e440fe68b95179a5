---------------------------- MODULE ShutdownNotice ----------------------------
(* What FEP Control in websocket mode promises its clients about its end, as  *)
(* a client sees it: who is connected when the shutdown is noticed is owed a  *)
(* message, and the process does not end before it has sent it to all of them *)
(* that stay.  A later client may be told or not.  quit ends everything, and  *)
(* so does a process that dies.                                               *)
CONSTANT Clients

VARIABLES
    phase,      \* serving, informing the clients, ended in order, or aborted
    connected,  \* the clients with an open connection
    due,        \* those of them that are still owed the message
    informed    \* the clients that got it

vars == <<phase, connected, due, informed>>

TypeOK == /\ phase \in {"serving", "informing", "ended", "aborted"}
          /\ connected \subseteq Clients
          /\ due \subseteq connected
          /\ informed \subseteq Clients

Init == /\ phase = "serving"
        /\ connected = {}
        /\ due = {}
        /\ informed = {}

Open == phase \in {"serving", "informing"}

Connect(c) == /\ Open
              /\ c \notin connected
              /\ connected' = connected \cup {c}
              /\ UNCHANGED <<phase, due, informed>>

Disconnect(c) == /\ Open
                 /\ c \in connected
                 /\ connected' = connected \ {c}
                 /\ due' = due \ {c}
                 /\ UNCHANGED <<phase, informed>>

Notice == /\ phase = "serving"
          /\ phase' = "informing"
          /\ due' = connected
          /\ UNCHANGED <<connected, informed>>

Inform(c) == /\ phase = "informing"
             /\ c \in connected \ informed
             /\ informed' = informed \cup {c}
             /\ due' = due \ {c}
             /\ UNCHANGED <<phase, connected>>

End == /\ phase = "informing"
       /\ due = {}
       /\ phase' = "ended"
       /\ connected' = {}
       /\ UNCHANGED <<due, informed>>

Quit == /\ Open
        /\ phase' = "aborted"
        /\ connected' = {}
        /\ due' = {}
        /\ UNCHANGED informed

Next == \/ Notice \/ End \/ Quit
        \/ \E c \in Clients : Connect(c) \/ Disconnect(c) \/ Inform(c)

Spec == Init /\ [][Next]_vars
=============================================================================
