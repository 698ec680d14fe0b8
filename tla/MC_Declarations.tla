--------------------------- MODULE MC_Declarations ---------------------------
(* Instantiation of Declarations for TLC: programs of up to two functions *)
(* with distinct names, each body making up to two references, and of    *)
(* three (main, f and g, in every order), each making up to one.          *)
EXTENDS Declarations, TLC

(* The registry entries the lowering reaches (spec 4.7): the simple and  *)
(* dotted names of println share one symbol.                               *)
StdRegistry ==
  ("std.io.println" :> [symbol |-> "otter_std_io_println",
                        sig |-> [params |-> <<"Str">>, result |-> "Unit"]]) @@
  ("println"        :> [symbol |-> "otter_std_io_println",
                        sig |-> [params |-> <<"Str">>, result |-> "Unit"]]) @@
  ("std.time.now"   :> [symbol |-> "otter_std_time_now_ms",
                        sig |-> [params |-> <<>>, result |-> "I64"]])

(* fn() with no annotations, and fn(x) -> float.                           *)
UserTypes == {[params |-> <<>>, ret |-> "i32"], [params |-> <<"f64">>, ret |-> "f64"]}

Refs ==
  {[k |-> "println"], [k |-> "time_now"], [k |-> "fstring"],
   [k |-> "member", m |-> "io", f |-> "println"],
   [k |-> "call", n |-> "f"], [k |-> "call", n |-> "g"]}

Bodies == {<<>>} \cup {<<r>> : r \in Refs} \cup {<<r, s>> : r, s \in Refs}

Fn(name) == [name : {name}, ty : UserTypes, refs : Bodies]

(* Functions whose body makes at most one reference.                       *)
Fn1(name) == [name : {name}, ty : UserTypes, refs : {<<>>} \cup {<<r>> : r \in Refs}]

(* The source orders of main, f and g.                                     *)
Orders3 == {o \in [1..3 -> {"main", "f", "g"}] : \A a, b \in 1..3 : a /= b => o[a] /= o[b]}

DistinctPrograms ==
  {<<>>} \cup {<<a>> : a \in Fn("main") \cup Fn("f")}
         \cup {<<a, b>> : a \in Fn("main"), b \in Fn("f")}
         \cup {<<a, b>> : a \in Fn("f"), b \in Fn("main")}
         \cup UNION {{<<a, b, c>> : a \in Fn1(o[1]), b \in Fn1(o[2]), c \in Fn1(o[3])} :
                     o \in Orders3}
=============================================================================
