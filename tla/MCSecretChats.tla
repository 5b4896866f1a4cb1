--------------------------- MODULE MCSecretChats ----------------------------
(* Two clients that may invite each other, and a message with a file.      *)
EXTENDS SecretChats

CONSTANTS ann, bob

Invitation == [id |-> 1, by |-> ann, with |-> bob]
Crossing == [id |-> 2, by |-> bob, with |-> ann]
Hello == [id |-> 3, by |-> ann, chat |-> Invitation, files |-> TRUE]

MCUsers == {ann, bob}
OneChat == {Invitation}
TwoChats == {Invitation, Crossing}
HelloOnly == {Hello}
=============================================================================
