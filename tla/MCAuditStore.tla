---- MODULE MCAuditStore ----
(* Two runs whose ids share the first letter; starts within one second and *)
(* a second apart, with fractions whose last zeros the text drops.         *)
EXTENDS AuditStore

MCIds == {<<1, 1>>, <<1, 2>>}
====
