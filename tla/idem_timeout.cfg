CONSTANTS
  a1 = a1
  a2 = a2
  a3 = a3
  a4 = a4
  k1 = k1
  p = p
  q = q
  Null = Null
  Attempts = {a1, a2, a3, a4}
  Keys = {k1}
  Payloads = {p, q}
  KeyOf <- MCKeyOf
  PayloadOf <- MCPayloadOf
  Faults = {"timeout"}
SPECIFICATION Spec
INVARIANTS AtMostOnce
