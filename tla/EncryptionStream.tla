-------------------------- MODULE EncryptionStream --------------------------
(***************************************************************************)
(* What the accelerator promises its user: the blocks of a stream of       *)
(* packets come out in the order they went in, each exactly once, and      *)
(* every block of a packet is encrypted with the key the registers held in *)
(* the cycle the packet's first block was offered, whatever software       *)
(* writes to the registers afterwards.  README.md: "once a stream          *)
(* transaction starts, we consider the available key at that time".        *)
(***************************************************************************)
EXTENDS Naturals, Sequences

CONSTANTS Keys, NoKey

VARIABLES aes_key,     \* the key registers; NoKey until the first write
          open,        \* a packet has been offered and not accepted to its end
          packet_key,  \* the key the last packet offered is encrypted with
          accepted,    \* blocks taken in since reset
          delivered,   \* blocks handed out since reset
          in_flight    \* the blocks in between

vars == << aes_key, open, packet_key, accepted, delivered, in_flight >>

Init ==
  /\ aes_key = NoKey
  /\ open = FALSE
  /\ packet_key = NoKey
  /\ accepted = 0
  /\ delivered = 0
  /\ in_flight = << >>

WriteKey == aes_key' \in Keys \cup {aes_key}

\* A block is offered; the first one of a packet fixes the packet's key.
Offer == packet_key' = IF open THEN packet_key ELSE aes_key

Accept(last) ==
  /\ Offer
  /\ open' = ~last
  /\ accepted' = accepted + 1

Refuse ==
  /\ Offer
  /\ open' = TRUE
  /\ UNCHANGED accepted

NoOffer == UNCHANGED << packet_key, open, accepted >>

Deliver ==
  /\ in_flight # << >>
  /\ Head(in_flight).id = delivered
  /\ delivered' = delivered + 1

NoDelivery == UNCHANGED delivered

Remaining == IF delivered' = delivered THEN in_flight ELSE Tail(in_flight)

\* One clock cycle moves at most one block in and at most one out.
Cycle ==
  /\ WriteKey
  /\ Deliver \/ NoDelivery
  /\ \/ \E last \in BOOLEAN :
          /\ Accept(last)
          /\ in_flight' = Append(Remaining,
                                 [id |-> accepted, key |-> packet_key', last |-> last])
     \/ /\ Refuse \/ NoOffer
        /\ in_flight' = Remaining

Reset ==
  /\ aes_key' = NoKey
  /\ open' = FALSE
  /\ packet_key' = NoKey
  /\ accepted' = 0
  /\ delivered' = 0
  /\ in_flight' = << >>

Spec == Init /\ [][Cycle \/ Reset]_vars
=============================================================================
