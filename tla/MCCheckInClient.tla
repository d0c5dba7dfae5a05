--------------------------- MODULE MCCheckInClient ---------------------------
(***************************************************************************)
(* Instances of CheckInClient for TLC: the coins the clients hold.         *)
(***************************************************************************)
EXTENDS CheckInClient, MCObpCore

CONSTANTS MCOwner,    \* who holds the coin of every client, it was minted to MCRecipient
          MCRecipient,
          MCLength,   \* length of its chain
          MCChecker   \* who starts the check-ins

MCSerial == CHOOSE sn \in Serials : TRUE
MCValue == CHOOSE v \in MCMintValues : TRUE
MCCoinOf ==
  [c \in Clients |-> ChainOf(MCSerial, MCValue,
     [i \in 1..MCLength |-> IF i = 1 THEN MCRecipient ELSE MCOwner])]
MCCheckerOf == [c \in Clients |-> MCChecker]
=============================================================================
