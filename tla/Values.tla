-------------------------------- MODULE Values --------------------------------
(* The values of a program, vm.h and vm_util.c. Numbers are doubles: here they
   are counted in halves, so that some of them are not whole. Functions, closures
   and natives are left out. What a text is made of is left to those who use it. *)
EXTENDS Integers, Sequences

Null == [null |-> TRUE]
Bool(b) == [truth |-> b]
Number(halves) == [number |-> halves]
Text(characters) == [text |-> characters]
Object(address) == [object |-> address]

Whole(n) == Number(2 * n)

IsNull(v) == "null" \in DOMAIN v
IsBool(v) == "truth" \in DOMAIN v
IsNumber(v) == "number" \in DOMAIN v
IsText(v) == "text" \in DOMAIN v
IsObject(v) == "object" \in DOMAIN v

\* The decimal digits of n as ASCII codes.
RECURSIVE Digits(_)
Digits(n) == IF n < 10 THEN <<48 + n>> ELSE Append(Digits(n \div 10), 48 + (n % 10))

Magnitude(halves) == IF halves < 0 THEN -halves ELSE halves

\* vm_value_to_string for what is not a text, as ASCII codes: "%.14g" of a number
\* of few digits, "true", "false", "null".
Spelling(v) ==
    CASE IsNumber(v) -> (IF v.number < 0 THEN <<45>> ELSE <<>>)
                          \o Digits(Magnitude(v.number) \div 2)
                          \o (IF v.number % 2 = 0 THEN <<>> ELSE <<46, 53>>)
      [] IsBool(v)   -> IF v.truth THEN <<116, 114, 117, 101>>
                                   ELSE <<102, 97, 108, 115, 101>>
      [] IsNull(v)   -> <<110, 117, 108, 108>>
===============================================================================
