-------------------------------- MODULE PAIR --------------------------------
(***************************************************************************)
(* pkg/pair/pair.go: the PrivateKey operations of the PAIR protocol, used  *)
(* by a publisher and an advertiser as pkg/pair/README.md lays down: each  *)
(* encrypts its identifiers, re-encrypts the other's, and the advertiser   *)
(* decrypts the PAIR IDs both have.  Lists are shuffled before they are    *)
(* exchanged, so they are sets here.                                       *)
(*                                                                         *)
(* A PrivateKey holds a running hash; h is what has been written to it,    *)
(* and a digest is named by that.                                          *)
(***************************************************************************)
EXTENDS Integers, Sequences, FiniteSets, Ristretto

CONSTANT Ids   \* the identifiers; Keys is {"pub", "adv"}

VARIABLES input,      \* per party: its identifiers
          h,          \* per party: what its PrivateKey's hash has taken in
          published,  \* per party: identifier |-> ciphertext, so far
          pairIDs,    \* per party: the PAIR IDs it computed
          activated   \* the advertiser's decrypted matches

vars == <<input, h, published, pairIDs, activated>>

Peer(p) == CHOOSE q \in Keys : q # p

Init ==
    /\ input \in [Keys -> SUBSET Ids]
    /\ h = [p \in Keys |-> <<>>]
    /\ published = [p \in Keys |-> [x \in {} |-> x]]
    /\ pairIDs = [p \in Keys |-> {}]
    /\ activated = {}

\* PAIRMode.New with a valid salt and scalar: a caller may build its key anew
\* between two identifiers, and does not have to.
New(p) ==
    /\ h[p] # <<>>
    /\ h' = [h EXCEPT ![p] = <<>>]
    /\ UNCHANGED <<input, published, pairIDs, activated>>

\* PrivateKey.hash: salt and data are written, and Sum does not reset.
Hashed(p, x) == Append(h[p], x)

Encrypt(p, x) ==
    /\ x \in input[p] \ DOMAIN published[p]
    /\ h' = [h EXCEPT ![p] = Hashed(p, x)]
    /\ published' = [published EXCEPT ![p] =
         [y \in DOMAIN @ \cup {x} |->
            IF y = x THEN DeriveMultiply(p, Hashed(p, x)) ELSE @[y]]]
    /\ UNCHANGED <<input, pairIDs, activated>>

\* One of the other party's ciphertexts becomes a PAIR ID.
ReEncrypt(p, x) ==
    /\ x \in DOMAIN published[Peer(p)]
    /\ Multiply(p, published[Peer(p)][x]) \notin pairIDs[p]
    /\ pairIDs' = [pairIDs EXCEPT ![p] = @ \cup {Multiply(p, published[Peer(p)][x])}]
    /\ UNCHANGED <<input, h, published, activated>>

\* Every ciphertext of either party has been re-encrypted by the other.
Exchanged ==
    \A p \in Keys :
        /\ DOMAIN published[p] = input[p]
        /\ {Multiply(Peer(p), published[p][x]) : x \in input[p]} = pairIDs[Peer(p)]

Undo(key, pt) == [pt EXCEPT !.exp[key] = @ - 1]

\* A PAIR ID of both sides is decrypted.
Decrypt(c) ==
    /\ Exchanged
    /\ c \in pairIDs["pub"] \cap pairIDs["adv"]
    /\ activated' = activated \cup {Undo("adv", c)}
    /\ UNCHANGED <<input, h, published, pairIDs>>

Next ==
    \/ \E p \in Keys : New(p) \/ \E x \in Ids : Encrypt(p, x) \/ ReEncrypt(p, x)
    \/ \E c \in pairIDs["adv"] : Decrypt(c)

Spec == Init /\ [][Next]_vars /\ WF_vars(Next)

----------------------------------------------------------------------------
Common == input["pub"] \cap input["adv"]

\* The Publisher IDs of the common identifiers, as far as encrypted.
PublisherIDs ==
    {published["pub"][x] : x \in Common \cap DOMAIN published["pub"]}

\* In the end the advertiser holds the Publisher ID of every identifier both
\* have: the order in which each side encrypted its list does not matter.
EveryMatchActivated ==
    <>(Common \subseteq DOMAIN published["pub"] /\ activated = PublisherIDs)
=============================================================================
