------------------------------ MODULE MC_Codec ------------------------------
(* One value of each wire form, chosen so that every byte of an encoding  *)
(* differs from its neighbours where the width allows (a swapped or        *)
(* shifted byte changes the value), the literal keys of spec.md section 8 *)
(* (the identity 0x20 x 32, an all-zero key) and an all-zero 32-byte      *)
(* array that is not an Ed25519 point, a canonical signature and one that *)
(* is not, a shared secret, an RSA identity and a two-byte MAC code.       *)
(* The IPv4 address has a first octet below 128 so that its u32 fits     *)
(* TLC's integers.                                                         *)
EXTENDS Codec

Block(n, b) == [i \in 1 .. n |-> b]

MCValidPoints == {Block(32, 32)}

(* A signature whose last byte has its high bits set is not canonical.     *)
MCValidSigs == {Block(64, 7)}

MCWrites ==
  { [ty |-> "u8", val |-> 255],
    [ty |-> "u16", val |-> 258],
    [ty |-> "u32", val |-> 16909060],
    [ty |-> "u64", val |-> 772],
    [ty |-> "u128", val |-> 1],
    [ty |-> "ipv4", val |-> <<100, 64, 2, 1>>],
    [ty |-> "ipv6", val |-> Block(15, 0) \o <<1>>],
    [ty |-> "ga", val |-> <<513, 65535>>],
    [ty |-> "arr20", val |-> Block(20, 9)],
    [ty |-> "arr32", val |-> Block(32, 0)],
    [ty |-> "arr32", val |-> Block(32, 32)],
    [ty |-> "ed25519", val |-> Block(32, 32)],
    [ty |-> "x25519", val |-> Block(32, 0)],
    [ty |-> "sig", val |-> Block(64, 7)],
    [ty |-> "sig", val |-> Block(64, 255)],
    [ty |-> "secret", val |-> Block(32, 3)],
    [ty |-> "rsa", val |-> Block(20, 5)],
    [ty |-> "mac", val |-> <<7, 200>>],
    [ty |-> "zeros", val |-> 16] }
=============================================================================
