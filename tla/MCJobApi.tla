------------------------------ MODULE MCJobApi ------------------------------
(* A small instance of JobApi: two clients, each with one of a few         *)
(* submissions that differ in what the handler looks at.                   *)
EXTENDS JobApi

CONSTANT k1

Plain == [audio |-> "ok", mode |-> "blank", format |-> "blank", callback |-> "nil",
          language |-> "nil", target |-> "nil", translate |-> FALSE]
Full == [audio |-> "ok", mode |-> "accurate", format |-> "json", callback |-> "blank",
         language |-> "blank", target |-> "fr", translate |-> FALSE]
Bad == [Plain EXCEPT !.callback = "refused"]

Sub(token, parses, body, payload, header) ==
    [token |-> token, parses |-> parses, body |-> body, payload |-> payload,
     header |-> header]

MCSubmissions ==
    {Sub(TRUE, TRUE, Plain, NoKey, NoKey),      \* no key at all
     Sub(TRUE, TRUE, Plain, NoKey, k1),         \* key in the header
     Sub(TRUE, TRUE, Full, EmptyKey, k1),       \* an empty key in the payload
     Sub(TRUE, TRUE, Bad, k1, NoKey),           \* refused by the validator
     Sub(TRUE, FALSE, Plain, NoKey, k1),        \* not JSON
     Sub(FALSE, TRUE, Plain, k1, EmptyKey)}     \* no token

=============================================================================
