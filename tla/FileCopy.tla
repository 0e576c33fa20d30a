------------------------------ MODULE FileCopy ------------------------------
(***************************************************************************)
(* What the demonstration client and server of the earlier SVC promise:    *)
(* each client's copy grows towards the file, never holding a byte that is *)
(* out of place, and a copy is only declared whole when it is.             *)
(***************************************************************************)
EXTENDS Naturals, Sequences

CONSTANTS Clients, File

VARIABLES copy, whole

Start == copy = [c \in Clients |-> <<>>] /\ whole = {}

Grow(c) == /\ c \notin whole
           /\ \E n \in (Len(copy[c]) + 1)..Len(File) :
                copy' = [copy EXCEPT ![c] = SubSeq(File, 1, n)]
           /\ UNCHANGED whole

Complete(c) == copy[c] = File /\ whole' = whole \cup {c} /\ UNCHANGED copy

Copying == Start /\ [][\E c \in Clients : Grow(c) \/ Complete(c)]_<<copy, whole>>
=============================================================================
