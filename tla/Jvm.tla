-------------------------------- MODULE Jvm ---------------------------------
(***************************************************************************)
(* Editing a class file with jvm.h: a jvm_class has the constant pool,     *)
(* fields, methods and attributes, each a growable array with a count      *)
(* beside it that goes to the file.  Names are constants of the pool, by   *)
(* their index from 1 on, where the count of the pool is one more than its *)
(* constants.  A jvm_class_member is a set of pointers into an item; the   *)
(* caller uses one only while the array it points into has not grown.      *)
(***************************************************************************)
EXTENDS Growth

CONSTANTS Class,        \* the owner of the attributes of the class itself
          Kinds,        \* of members: fields and methods
          Names, Infos, \* the names, as sequences, and contents callers give
          Parsed,       \* the pools, as sequences, of classes that were parsed
          W16           \* a 16 bit count holds numbers below it

VARIABLES pool,         \* constant_pool
          constant_pool_count,
          members,      \* fields and methods, for each kind
          members_count,
          own,          \* attributes and attributes_count of the class
          held,         \* the members the caller has, as <<kind, place>>
          failed        \* whether a call ended in exitf

vars == <<pool, constant_pool_count, members, members_count, own, held, failed>>

Utf8(name) == [tag |-> "Utf8", bytes |-> name]
Other == [tag |-> "other", bytes |-> << >>]

NoAttributes == [attributes |-> NoItems, count |-> 0]

Init ==
    /\ \E constants \in Parsed :
          /\ pool = [items |-> constants, cap |-> Len(constants)]
          /\ constant_pool_count = (Len(constants) + 1) % W16
    /\ members = [kind \in Kinds |-> NoItems] /\ members_count = [kind \in Kinds |-> 0]
    /\ own = NoAttributes
    /\ held = {} /\ failed = FALSE
-----------------------------------------------------------------------------
(* Names *)

\* what "n < constant_pool_count" lets through as the constant of an index: the
\* index that is the count gives what lies behind the pool
ConstantsAt(index) ==
    IF index = 0 \/ index > constant_pool_count THEN {}
    ELSE IF index <= Len(pool.items) THEN {pool.items[index]}
    ELSE {Other} \cup {Utf8(name) : name \in Names}

\* memcmp(name.ptr, bytes, length), which does not know where name ends: bytes need
\* only be what name, and the memory behind it, begins with
Called(name, c) ==
    IF c.tag # "Utf8" \/ \E i \in DOMAIN name \cap DOMAIN c.bytes : name[i] # c.bytes[i]
    THEN {FALSE}
    ELSE IF Len(c.bytes) <= Len(name) THEN {TRUE} ELSE BOOLEAN
MayBeCalled(name, index) == \E c \in ConstantsAt(index) : TRUE \in Called(name, c)
MustBeCalled(name, index) ==
    ConstantsAt(index) # {} /\ \A c \in ConstantsAt(index) : Called(name, c) = {TRUE}

\* the loop of the three "get" functions over the items: the places it may end at,
\* given the index each item has, and whether it may go past them all
Firsts(name, indices) ==
    {k \in DOMAIN indices : /\ MayBeCalled(name, indices[k])
                            /\ \A i \in 1..(k - 1) : ~MustBeCalled(name, indices[i])}
NotFound(name, indices) == \A k \in DOMAIN indices : ~MustBeCalled(name, indices[k])
-----------------------------------------------------------------------------
(* Members *)

Indices(items) == [k \in DOMAIN items |-> items[k].index]

\* realloc may have moved the members of a kind
Kept(kind, niw) ==
    IF members[kind].cap = niw.cap THEN held ELSE {h \in held : h[1] # kind}

Fails == failed' = TRUE /\ UNCHANGED <<constant_pool_count, members_count, held>>

\* jvm_reserve_fields and jvm_reserve_methods
ReserveMembers(kind, count) ==
    /\ ~failed
    /\ \/ \E arr \in Reserves(members[kind], count) :
            /\ members' = [members EXCEPT ![kind] = arr]
            /\ held' = Kept(kind, arr)
            /\ UNCHANGED <<pool, constant_pool_count, members_count, own, failed>>
       \/ members[kind].cap < count /\ Fails /\ UNCHANGED <<pool, members, own>>

\* jvm_add_field and jvm_add_method: the item is not zeroed and has no name, the
\* caller sets all that the jvm_class_member points at, with an index it knows
AddMember(kind, index) ==
    /\ ~failed
    /\ \/ \E arr \in Pushes(members[kind], [index |-> index, has |-> NoAttributes]) :
            /\ members' = [members EXCEPT ![kind] = arr]
            /\ members_count' = [members_count EXCEPT ![kind] = (@ + 1) % W16]
            /\ held' = Kept(kind, arr) \cup {<<kind, Len(arr.items)>>}
            /\ UNCHANGED <<pool, constant_pool_count, own, failed>>
       \/ MayFail(members[kind]) # {} /\ Fails /\ UNCHANGED <<pool, members, own>>

\* jvm_get_field and jvm_get_method
GetMember(kind, name) ==
    LET indices == Indices(members[kind].items) IN
    /\ ~failed
    /\ \/ \E k \in Firsts(name, indices) :
            held' = held \cup {<<kind, k>>} /\ UNCHANGED <<constant_pool_count, members_count, failed>>
       \/ NotFound(name, indices) /\ Fails
    /\ UNCHANGED <<pool, members, own>>
-----------------------------------------------------------------------------
(* Attributes of the class or of a member the caller has *)

Owners == {Class} \cup held
Has(owner) == IF owner = Class THEN own ELSE members[owner[1]].items[owner[2]].has
SetHas(owner, has) ==
    IF owner = Class THEN own' = has /\ UNCHANGED members
    ELSE /\ members' = [members EXCEPT ![owner[1]].items[owner[2]].has = has]
         /\ UNCHANGED own

\* jvm_reserve_attributes and jvm_member_reserve_attributes
ReserveAttributes(owner, count) ==
    LET attributes == Has(owner).attributes IN
    /\ ~failed
    /\ \/ \E arr \in Reserves(attributes, count) :
            /\ SetHas(owner, [Has(owner) EXCEPT !.attributes = arr])
            /\ UNCHANGED <<pool, constant_pool_count, members_count, held, failed>>
       \/ attributes.cap < count /\ Fails /\ UNCHANGED <<pool, members, own>>

\* jvm_get_attribute and jvm_member_get_attribute, where none is found
GetAttributeFails(owner, name) ==
    /\ ~failed
    /\ NotFound(name, Indices(Has(owner).attributes.items))
    /\ Fails /\ UNCHANGED <<pool, members, own>>

\* jvm_add_attribute and jvm_member_add_attribute: "given" is for the properties
\* only.  When it fails, what was pushed before stays, also that of bufcpy.
AddAttribute(owner, name, info) ==
    LET has == Has(owner)
        count == (constant_pool_count + 1) % W16
        attribute == [index |-> count, info |-> info, given |-> name]
    IN /\ ~failed
       /\ \/ \E arr \in Pushes(has.attributes, attribute), p \in Pushes(pool, Utf8(name)) :
               /\ SetHas(owner, [attributes |-> arr, count |-> (has.count + 1) % W16])
               /\ pool' = p
               /\ constant_pool_count' = count
               /\ UNCHANGED <<members_count, held, failed>>
          \/ \E arr \in Pushes(has.attributes, attribute) \cup MayFail(has.attributes),
                p \in Pushes(pool, Utf8(name)) \cup MayFail(pool) :
               /\ SetHas(owner, [has EXCEPT !.attributes = arr])
               /\ pool' = p
               /\ constant_pool_count' \in
                     IF arr = has.attributes \/ p = pool THEN {constant_pool_count}
                                                         ELSE {constant_pool_count, count}
               /\ failed' = TRUE
               /\ UNCHANGED <<members_count, held>>

Next ==
    \/ \E kind \in Kinds, count \in 1..MaxCap : ReserveMembers(kind, count)
    \/ \E kind \in Kinds, index \in DOMAIN pool.items : AddMember(kind, index)
    \/ \E kind \in Kinds, name \in Names : GetMember(kind, name)
    \/ \E owner \in Owners, count \in 1..MaxCap : ReserveAttributes(owner, count)
    \/ \E owner \in Owners, name \in Names : GetAttributeFails(owner, name)
    \/ \E owner \in Owners, name \in Names, info \in Infos : AddAttribute(owner, name, info)

Spec == Init /\ [][Next]_vars
-----------------------------------------------------------------------------
AttributesOf(owner) == Has(owner).attributes.items

\* The name of an attribute is the Utf8 constant it was added with: what the
\* comment of attribute_name_index (jvm.h 389) says it is the index of.
AttributeNamed ==
    ~failed =>
        \A owner \in Owners : \A k \in DOMAIN AttributesOf(owner) :
            ConstantsAt(AttributesOf(owner)[k].index) = {Utf8(AttributesOf(owner)[k].given)}

\* The counts that go to the file are those of the arrays that go there, through
\* every order of additions that did not fail: attributes of the class and of
\* each member, members, and the constants, of which there is one less.
CountsMatch ==
    LET CountOf(has) == has.count = Len(has.attributes.items) % W16
    IN ~failed => /\ constant_pool_count = (Len(pool.items) + 1) % W16
                  /\ CountOf(own)
                  /\ \A kind \in Kinds :
                        /\ members_count[kind] = Len(members[kind].items) % W16
                        /\ \A k \in DOMAIN members[kind].items : CountOf(members[kind].items[k].has)
=============================================================================
