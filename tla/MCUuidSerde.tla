----------------------------- MODULE MCUuidSerde -----------------------------
(* Model-checking instance of UuidSerde: four-byte Uuids over two byte     *)
(* values, sequences of up to five elements.                               *)
EXTENDS UuidSerde

CONSTANTS b0, b1

MCBytes == {b0, b1}

=============================================================================
