------------------------------ MODULE VoucherBytes ------------------------------
(***************************************************************************)
(* The bytes a voucher is signed and verified over, in Rust and in         *)
(* TypeScript.  A voucher is signed for one channel and total and may be   *)
(* presented for any; a total is a u64 for the Rust code, which reads it   *)
(* from the decimal text of the credential, and a bigint in TypeScript.    *)
(***************************************************************************)
EXTENDS Naturals, Sequences

CONSTANTS
    Half,           \* half of the values of a byte (128)
    Width,          \* bytes of an amount (8)
    ChannelIds,     \* sequences of bytes
    Keys,
    MaxTotal        \* BOUND: the largest total that is tried, beyond the width

VARIABLES
    signed,         \* the voucher, with the key and the language it is signed in
    claimed,        \* what it is presented for, and the key it is held against
    verdict         \* what each language says

vars == <<signed, claimed, verdict>>

Byte == 2 * Half

BytesAssumption ==
    /\ Half \in Nat \ {0, 1} /\ Width \in Nat \ {0}
    /\ ChannelIds \subseteq Seq(0..(Byte - 1))
    /\ MaxTotal \in Nat

(* How many totals some bytes can hold, and how many an amount can. *)
Holds[k \in 0..Width] == IF k = 0 THEN 1 ELSE Byte * Holds[k - 1]
Fits == Holds[Width]

-----------------------------------------------------------------------------
(* Seven bits at a time, the high bit where more follow. *)
Uleb128(value) ==
    LET bytes[v \in 0..value] ==
          IF v < Half THEN <<v>> ELSE <<Half + (v % Half)>> \o bytes[v \div Half]
    IN  bytes[value]

\* Mutant of LittleEndian: the last byte is not written.
LittleEndianShort(n) == [k \in 1..Width |->
    IF k = Width THEN 0 ELSE (n \div Holds[k - 1]) % Byte]

(* to_le_bytes, and setBigUint64, which takes what exceeds the width off.  *)
LittleEndian(n) == [k \in 1..Width |-> (n \div Holds[k - 1]) % Byte]

(* serialize_voucher and serializeVoucher. *)
Serialize(channel, total) ==
    Uleb128(Len(channel)) \o channel \o LittleEndian(total)

(* Ed25519 (external): a signature is the key and the message it is over. *)
Sign(key, channel, total) == [key |-> key, message |-> Serialize(channel, total)]

SignatureOf(v) == Sign(v.key, v.channel, v.total)

(* verify_voucher, of a total that was read as a u64, and verifyVoucher.   *)
\* Mutant of Readable: any number.
ReadableAny(total) == TRUE

Readable(total) == total < Fits

VerifiedBy(language, signature, c) ==
    /\ language = "rust" => Readable(c.total)
    /\ signature = Sign(c.key, c.channel, c.total)

-----------------------------------------------------------------------------
Vouchers == [key : Keys, channel : ChannelIds, total : 0..MaxTotal]

(* Whoever signs in Rust signs a u64. *)
Init ==
    /\ \E v \in Vouchers, language \in {"rust", "typescript"} :
          /\ language = "rust" => Readable(v.total)
          /\ signed = [voucher |-> v, by |-> language]
    /\ claimed \in Vouchers
    /\ verdict = << >>

Present ==
    /\ verdict = << >>
    /\ verdict' = [language \in {"rust", "typescript"} |->
                      VerifiedBy(language, SignatureOf(signed.voucher), claimed)]
    /\ UNCHANGED <<signed, claimed>>

Next == Present

Spec == Init /\ [][Next]_vars

-----------------------------------------------------------------------------
(* Properties *)

Presented == verdict # << >>

(* A signature is good for the channel and the key it was made for and for *)
(* no other, though channel ids differ in length and the parts of the      *)
(* message are only put one after the other.  The server, in Rust, accepts *)
(* it for totals of a u64 and so for the one that was signed, or, of a     *)
(* larger one signed in TypeScript, for what is left of it.  verifyVoucher *)
(* is no such guard: setBigUint64 cuts a total that does not fit, and the  *)
(* page of a host verifies a signature for every total that differs from   *)
(* the signed one by what a u64 cannot hold.                               *)
SameVoucher(c, v) ==
    /\ c.key = v.key /\ c.channel = v.channel
    /\ c.total % Fits = v.total % Fits

AcceptedIsSigned == Presented =>
    /\ verdict["typescript"] <=> SameVoucher(claimed, signed.voucher)
    /\ verdict["rust"] <=> /\ claimed.total < Fits
                          /\ SameVoucher(claimed, signed.voucher)
=============================================================================
