----------------------------- MODULE ClassFile ------------------------------
(***************************************************************************)
(* The formats of class files that jvm.h declares with bipa's macros: the  *)
(* whole of jvm_class, with the kinds of constants, members and their      *)
(* attributes, and what the attributes Code and ConstantValue hold.  The   *)
(* number in a path is the place of a field in its struct.                 *)
(***************************************************************************)
EXTENDS Bipa

LOCAL U8 == UInt(1, FALSE)
LOCAL U16be == UInt(2, TRUE)
LOCAL U32be == UInt(4, TRUE)
LOCAL U64be == UInt(8, TRUE)
LOCAL Tagged(tag, f) == Kind(U8, <<tag>>, f)

\* 15 flags: the highest bit is not kept
AccessFlags == Packed(U16be, [i \in 1..15 |-> 1])

ReferenceKind == Union([k \in 1..9 |-> Tagged(k, Void)])

ClassRef == Struct(<<U16be>>)
MemberRef == Struct(<<U16be, U16be>>)
Half == Struct(<<U32be>>)
Whole == Struct(<<U64be>>)
Utf8Info == Struct(<<U16be, Lstr(<<1>>)>>)
MethodHandle == Struct(<<ReferenceKind, U16be>>)

CpInfo ==
    Union(<<Tagged(7, ClassRef), Tagged(9, MemberRef), Tagged(10, MemberRef), Tagged(11, MemberRef),
            Tagged(8, ClassRef), Tagged(3, Half), Tagged(4, Half), Tagged(5, Whole), Tagged(6, Whole),
            Tagged(12, MemberRef), Tagged(1, Utf8Info), Tagged(15, MethodHandle),
            Tagged(16, ClassRef), Tagged(18, MemberRef)>>)

AttributeInfo == Struct(<<U16be, U32be, Lstr(<<2>>)>>)
\* the attributes behind their count, the field at place "count"
Attributes(count) == Array(AttributeInfo, Count(<<count>>, 0))
MemberInfo == Struct(<<AccessFlags, U16be, U16be, U16be, Attributes(4)>>)

MagicNumber == Union(<<Kind(U32be, <<190, 186, 254, 202>>, Void)>>)
JvmClass ==
    Struct(<<MagicNumber, U16be, U16be, U16be, Array(CpInfo, Count(<<4>>, 1)),
             AccessFlags, U16be, U16be, U16be, Array(U16be, Count(<<9>>, 0)),
             U16be, Array(MemberInfo, Count(<<11>>, 0)),
             U16be, Array(MemberInfo, Count(<<13>>, 0)), U16be, Attributes(15)>>)

ConstantValue == Struct(<<U16be>>)
CodeException == Struct(<<U16be, U16be, U16be, U16be>>)
CodeAttribute ==
    Struct(<<U16be, U16be, U32be, Lstr(<<3>>), U16be, Array(CodeException, Count(<<5>>, 0)),
             U16be, Attributes(7)>>)
=============================================================================
