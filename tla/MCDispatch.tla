---------------------------- MODULE MCDispatch ----------------------------
(* Six classes in four images. V and W are value classes that have each      *)
(* other's values as ivars; A and B have values and objects. Three classes   *)
(* claim the same slot of tagged pointers, an alias stands for A, and        *)
(* receivers forward along a chain and in a circle. What is read in freed    *)
(* memory may be a name of an image that is not loaded yet, such as "k".     *)
EXTENDS Dispatch

CONSTANTS O, VO, V, W, A, B, i1, i2, i3, i4

MCClass == {O, VO, V, W, A, B}
MCName == {"Object", "ValueObject", "V", "W", "A", "B", "alias", "second"}
MCSuper == [c \in Class |-> CASE c = O -> Nil
                              [] c \in {VO, A} -> O
                              [] c \in {V, W} -> VO
                              [] c = B -> A]
MCIvars == [c \in Class |->
  LET ivar(t, n, o) == [type |-> t, size |-> n, local |-> o] IN
  CASE c \in {O, VO} -> <<>>
    [] c = V -> <<ivar("other", 1, 0), ivar("W", 2, 2)>>
    [] c = W -> <<ivar("V", 2, 0)>>
    [] c = A -> <<ivar("alias", 2, 0), ivar("other", 1, 2), ivar("id", 2, 4)>>
    [] c = B -> <<ivar("W", 2, 0), ivar("V", 2, 2)>>]
MCNameOf == [c \in Class |-> CASE c = O -> "Object" [] c = VO -> "ValueObject"
              [] c = V -> "V" [] c = W -> "W" [] c = A -> "A" [] c = B -> "B"]
MCNameHash == [n \in Name |-> CASE n \in {"Object", "A", "alias"} -> 6
                                [] n \in {"V", "B"} -> 2 [] OTHER -> 3]
MCClasses == [i \in Image |-> CASE i = i1 -> <<O, VO>> [] i = i2 -> <<W, V>>
                                [] i = i3 -> <<A>> [] i = i4 -> <<B>>]
MCAliases == [i \in Image |-> IF i = i2 THEN <<[name |-> "alias", cls |-> V]>> ELSE <<>>]
MCSelectors == [i \in Image |-> CASE i = i1 -> <<"dealloc", "m">> [] i = i2 -> <<>>
                                  [] i = i3 -> <<"m">> [] i = i4 -> <<"k", "m">>]
MCSelName == {"dealloc", "tag", "forward", "destruct", "m", "k"}
MCSelBucket == [n \in SelName |-> IF n \in {"m", "tag"} THEN 0 ELSE 1]
MCBuiltins == <<"dealloc", "forward", "destruct", "tag">>
MCStaticName == [s \in Static |-> "destruct"]
MCMethods == [t \in Table |->
  CASE t = <<O, "instances">> -> <<"dealloc", "forward", "m">>
    [] t = <<O, "class">> -> <<"tag">>
    [] t = <<V, "instances">> -> <<"m">>
    [] t = <<A, "instances">> -> <<"dealloc">>
    [] t = <<A, "class">> -> <<"m", "tag">>
    [] t = <<B, "instances">> -> <<"k", "m">>
    [] t = <<B, "class">> -> <<"tag">>
    [] OTHER -> <<>>]
MCMetaHash == [t \in Table |-> IF t[1] \in {O, A} THEN 1 ELSE 15]
MCTagSlot == [c \in Class |-> IF c \in {O, A, B} THEN 1 ELSE 0]
MCTableOf == [o \in Object |-> IF o = 4 THEN <<B, "instances">> ELSE <<A, "instances">>]
MCForward == [f \in Object \X SelName |->
                CASE f[1] \in 0 .. 3 -> f[1] + 1 [] f[1] = 4 -> Nil
                  [] f[1] = 5 -> 6 [] f[1] = 6 -> 5]
=============================================================================
