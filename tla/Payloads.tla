------------------------------ MODULE Payloads ------------------------------
(***************************************************************************)
(* The payloads of messages (apollows/proto.go).  Data holds the JSON text *)
(* that was read and a Go value to write; encoding/json calls its methods  *)
(* for a payload that is there, and leaves it alone for one that is not.   *)
(***************************************************************************)
CONSTANTS
    Nil,  \* no Go value, and the payload of a message that has none
    Null  \* the JSON text null

EmptyData == [Value |-> Nil, RawMessage |-> Nil]

UnmarshalJSON(text) == [Value |-> text, RawMessage |-> text]

\* Ptr gives omitempty something to omit.
Ptr_Always(data) == data
Ptr(data) == IF data.Value = Nil THEN Nil ELSE data

MarshalJSON(data) == IF data.Value = Nil THEN Null ELSE data.Value

\* The payload member of a message on its way in, and out.
Decode(payload, text) == IF text = Nil THEN payload ELSE UnmarshalJSON(text)
Encode(payload) == IF Ptr(payload) = Nil THEN Nil ELSE MarshalJSON(payload)

\* The readers of clients: what errs of a payload of this JSON type they get.
ReadPayloadError(type, errs)  == IF type = "object" THEN errs ELSE {}
ReadPayloadErrors(type, errs) == IF type = "list" THEN errs ELSE {}
=============================================================================
