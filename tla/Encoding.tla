------------------------------ MODULE Encoding ------------------------------
(***************************************************************************)
(* The frames Frame.c builds, by their sizes: how many bytes of payload a  *)
(* frame says it has, how many are written before its end, and the same    *)
(* for the strings in it.  A peer that reads a frame with says # has has   *)
(* lost its place in the stream for good.                                  *)
(*                                                                         *)
(* Lengths are numbers of bytes; what a uint8_t or a uint16_t keeps of one *)
(* is its remainder.  All of them fit a uint32_t.                          *)
(***************************************************************************)
EXTENDS Integers

MAX_FRAME_SIZE == 3000
MAX_BODY_SIZE == 3000
CONSUMER_TAG_SIZE == 50

\* strlen of the strings of son_of_a_greve.meta, and of the names some have.
Meta == [cluster_name |-> 20, license |-> 43, product |-> 19,
         mechanisms |-> 15, locales |-> 11]
NameOf == [cluster_name |-> 12, license |-> 7, product |-> 7]

Byte(n) == n % 256
Short(n) == n % 65536

\* message_build_n: the count is 16 bits wide.
Copied(n) == Short(n)

\* A string after its length, and what the reader takes for its length.
String(says, has) == [says |-> says, has |-> Copied(has)]

Frame(what, says, has, strings) ==
  [what |-> what, says |-> says, has |-> has, strings |-> strings]

\* Type, channel, size and the byte at the end.
FrameSize(f) == 7 + f.has + 1

class == 2
method == 2

-----------------------------------------------------------------------------
(* Answers. *)

build_queue_declare_ok(name_size) ==
  LET name == String(Byte(name_size), name_size) IN
    Frame("queue_declare_ok", class + method + (1 + name_size) + 4 + 4,
          class + method + 1 + name.has + 4 + 4, {name})

build_connection_tune ==
  Frame("connection_tune", class + method + 2 + 4 + 2,
        class + method + 2 + 4 + 2, {})

Property(p) == 1 + NameOf[p] + 1 + 4 + Meta[p]
Key(p) == String(Byte(NameOf[p]), NameOf[p])
Value(p) == String(Meta[p], Meta[p])
PropertyWritten(p) == 1 + Key(p).has + 1 + 4 + Value(p).has

\* The table of properties is itself announced by its size.
build_connection_start ==
  LET properties_size ==
        Property("cluster_name") + Property("license") + Property("product")
      written == PropertyWritten("cluster_name") + PropertyWritten("license")
                   + PropertyWritten("product")
      mechanisms == Value("mechanisms")
      locales == Value("locales")
  IN Frame("connection_start",
           class + method + 1 + 1 + 4 + properties_size
             + 4 + Meta.mechanisms + 4 + Meta.locales,
           class + method + 1 + 1 + 4 + written + 4 + mechanisms.has
             + 4 + locales.has,
           {Key(p) : p \in DOMAIN NameOf} \cup {Value(p) : p \in DOMAIN Meta}
             \cup {[says |-> properties_size, has |-> written]})

build_connection_open_ok ==
  Frame("connection_open_ok", class + method + 1, class + method + 1, {})

build_connection_close_ok ==
  Frame("connection_close_ok", class + method, class + method, {})

build_channel_open_ok ==
  Frame("channel_open_ok", class + method + 4, class + method + 4, {})

build_channel_close_ok ==
  Frame("channel_close_ok", class + method, class + method, {})

build_basic_consume_ok(tag_size) ==
  LET tag == String(Byte(tag_size), tag_size) IN
    Frame("basic_consume_ok", class + method + tag_size + 1,
          class + method + 1 + tag.has, {tag})

-----------------------------------------------------------------------------
(* Deliveries. *)

\* Faulty variant: the byte for the length of the queue's name is forgotten.
deliver_method_short(announced, said, copied, name_size) ==
  LET tag == String(Byte(said), copied)
      name == String(Byte(name_size), Byte(name_size))
  IN Frame("basic_deliver", class + method + (1 + announced + 10 + name_size),
           class + method + 1 + tag.has + 10 + 1 + name.has, {tag, name})

\* consumer_tag_size is read for the size of the payload, for the byte before
\* the tag and for the copy of the tag, and may change in between: three values.
\* The length of the name is kept in a byte, but announced in full.
build_basic_deliver_method(announced, said, copied, name_size) ==
  LET tag == String(Byte(said), copied)
      name == String(Byte(name_size), Byte(name_size))
  IN Frame("basic_deliver",
           class + method + (1 + announced + 10 + 1 + name_size),
           class + method + 1 + tag.has + 10 + 1 + name.has, {tag, name})

build_basic_deliver_header ==
  Frame("header", class + 2 + 8 + 3, class + 2 + 8 + 3, {})

build_basic_deliver_body(body_size) ==
  Frame("body", body_size, Copied(body_size), {})
=============================================================================
