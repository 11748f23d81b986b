---------------------------- MODULE TokenLedger ----------------------------
(***************************************************************************)
(* The promise of the NFT evaluators about tokens, without accounts,       *)
(* approvals, symbols or node configuration: a collection has a cap on the *)
(* tokens alive in it, a token is minted once under a fresh identifier,    *)
(* moves only when it is not bound to its owner, and a burned one never    *)
(* comes back.                                                             *)
(***************************************************************************)
EXTENDS Naturals, FiniteSets

CONSTANTS Owners, Caps, CollectionIds, TokenIds

VARIABLES caps,    \* collection -> cap on live tokens, 0 for none
          tokens,  \* live token -> [collection, owner, bound]
          spent    \* identifiers of all tokens ever minted

Alive(c) == {t \in DOMAIN tokens : tokens[t].collection = c}

Init == caps = << >> /\ tokens = << >> /\ spent = {}

Open(c, cap) ==
  /\ c \notin DOMAIN caps
  /\ caps' = [x \in DOMAIN caps \cup {c} |-> IF x = c THEN cap ELSE caps[x]]
  /\ UNCHANGED <<tokens, spent>>

Mint(t, c, owner, bound) ==
  /\ t \notin spent
  /\ c \in DOMAIN caps
  /\ caps[c] = 0 \/ Cardinality(Alive(c)) < caps[c]
  /\ tokens' = [x \in DOMAIN tokens \cup {t} |->
                  IF x = t THEN [collection |-> c, owner |-> owner, bound |-> bound]
                           ELSE tokens[x]]
  /\ spent' = spent \cup {t}
  /\ UNCHANGED caps

Move(t, owner) ==
  /\ ~tokens[t].bound
  /\ tokens' = [tokens EXCEPT ![t].owner = owner]
  /\ UNCHANGED <<caps, spent>>

Burn(t) ==
  /\ tokens' = [x \in DOMAIN tokens \ {t} |-> tokens[x]]
  /\ UNCHANGED <<caps, spent>>

Next ==
  \/ \E c \in CollectionIds, cap \in Caps : Open(c, cap)
  \/ \E t \in TokenIds, c \in CollectionIds, o \in Owners, b \in BOOLEAN : Mint(t, c, o, b)
  \/ \E t \in DOMAIN tokens : (\E o \in Owners : Move(t, o)) \/ Burn(t)

Spec == Init /\ [][Next]_<<caps, tokens, spent>>
============================================================================
