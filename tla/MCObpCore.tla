------------------------------ MODULE MCObpCore ------------------------------
(***************************************************************************)
(* Instances of ObpCore for TLC: which chains the holders of the coins     *)
(* have built offline, and the balances to start from.                     *)
(***************************************************************************)
EXTENDS ObpCore, TLC

CONSTANTS MCOwners,      \* wallets that appear in an ownership chain
          MCMaxChain,    \* longest chain a holder has built
          MCMintValues,  \* values of the chains that exist
          MCBroken,      \* whether ill-formed links are offered too
          MCReserve,     \* funds of the mint authority
          MCRich,        \* wallets that can pay a bond
          MCWalletFunds  \* funds of each of those

\* The states of the coin (sn, v) whose owners were, in turn, `owners`.
ChainOf(sn, v, owners) ==
  LET st[i \in 1..Len(owners)] ==
        IF i = 1 THEN GenesisState(sn, v, owners[1])
        ELSE NextState(st[i-1], owners[i])
  IN st

OwnerSeqs == UNION {[1..n -> MCOwners] : n \in 2..MCMaxChain}

Chains == {ChainOf(sn, v, o) : sn \in Serials, v \in MCMintValues, o \in OwnerSeqs}

\* A link built on the wrong predecessor, of the wrong value, of no coin's past.
BrokenLinks ==
  IF ~MCBroken THEN {}
  ELSE UNION {{<<[c[2] EXCEPT !.value = v]>> : v \in Values \ {c[2].value}}
              \cup {<<[c[2] EXCEPT !.prev = ZeroHash]>>,
                    <<c[2], [NextState(c[2], c[1].owner) EXCEPT !.prev = c[2].prev]>>} :
              c \in {d \in Chains : Len(d) = 2}}

\* A holder sends any contiguous part of a chain, also one it sent before.
MCLinkBatches ==
  BrokenLinks \cup
    UNION {{SubSeq(c, i, j) : i \in 2..Len(c), j \in 2..Len(c)} \ {<<>>} : c \in Chains}

MCFunds == [x \in Accounts |-> IF x = MintAuthority THEN MCReserve
                               ELSE IF x \in MCRich THEN MCWalletFunds ELSE 0]

WalletSymmetry == Permutations(Wallets)
CoinSymmetry == Permutations(Serials)
=============================================================================
