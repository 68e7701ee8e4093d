---------------------------- MODULE PaymentChannel ----------------------------
(***************************************************************************)
(* What a payment channel promises to payer and payee, with every request  *)
(* a single step: the payer's authorization only grows while the channel   *)
(* is open and is backed by what the payer deposited, the payee never      *)
(* spends more than is authorized, and a channel is closed once, for no    *)
(* less than was authorized.  SessionMethod is held against it.            *)
(***************************************************************************)
EXTENDS Naturals

CONSTANTS Channels, MaxAmount

VARIABLES
    funds,        \* what the payer has deposited
    phase,        \* "none", "open" or "closed"
    authorized,   \* the highest amount the payee may collect
    spent         \* the amount the payee has delivered service for

channelVars == <<funds, phase, authorized, spent>>

Init ==
    /\ funds = [c \in Channels |-> 0]
    /\ phase = [c \in Channels |-> "none"]
    /\ authorized = [c \in Channels |-> 0]
    /\ spent = [c \in Channels |-> 0]

Fund(c) ==
    /\ \E d \in 0..MaxAmount : d > funds[c] /\ funds' = [funds EXCEPT ![c] = d]
    /\ UNCHANGED <<phase, authorized, spent>>

OpenChannel(c) ==
    /\ phase[c] = "none"
    /\ phase' = [phase EXCEPT ![c] = "open"]
    /\ \E a \in 0..funds[c] : authorized' = [authorized EXCEPT ![c] = a]
    /\ UNCHANGED <<funds, spent>>

Authorize(c) ==
    /\ phase[c] = "open"
    /\ \E a \in 0..funds[c] :
         a > authorized[c] /\ authorized' = [authorized EXCEPT ![c] = a]
    /\ UNCHANGED <<funds, phase, spent>>

(* Service may still be charged against a closed channel's authorization. *)
Spend(c) ==
    /\ phase[c] # "none"
    /\ \E n \in 0..MaxAmount :
         spent[c] + n <= authorized[c] /\ spent' = [spent EXCEPT ![c] = @ + n]
    /\ UNCHANGED <<funds, phase, authorized>>

CloseChannel(c) ==
    /\ phase[c] = "open"
    /\ phase' = [phase EXCEPT ![c] = "closed"]
    /\ \E a \in 0..MaxAmount :
         a >= authorized[c] /\ authorized' = [authorized EXCEPT ![c] = a]
    /\ UNCHANGED <<funds, spent>>

Next == \E c \in Channels :
    Fund(c) \/ OpenChannel(c) \/ Authorize(c) \/ Spend(c) \/ CloseChannel(c)

Spec == Init /\ [][Next]_channelVars
=============================================================================
