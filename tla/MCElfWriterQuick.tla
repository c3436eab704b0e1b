------------------------- MODULE MCElfWriterQuick -------------------------
EXTENDS ElfWriterQuick

MCPageSize == 4096
(* one page of oat data *)
MCOatDataSizes == {4096}
(* .text of one word (the smallest oatlastword allows), a whole page, and *)
(* a page and a word, which ends inside a page .dynamic must not share    *)
MCOatExecSizes == {4, 4096, 4100}
(* soname lengths 0 to 3, with and without a directory part *)
MCPaths == {<<"a">>, <<"/", "a">>, <<"a", "/">>, <<"/", "a", "a", "a">>}
(* No compiled method, and two methods ("m" and "ru") whose pcs have      *)
(* several non-zero bytes, the second of which lowers the minimum and     *)
(* raises the maximum; .debug_frame of 20 bytes.  .debug_info and         *)
(* .debug_str then have odd sizes, so .debug_frame's RoundUp matters.     *)
MCMethod1 == [name |-> <<109>>, low |-> 4660, high |-> 4700]
MCMethod2 == [name |-> <<114, 117>>, low |-> 64, high |-> 65600]
MCDebugInfos == {[methods |-> <<>>, frm |-> 20],
                 [methods |-> <<MCMethod1, MCMethod2>>, frm |-> 20]}
MCIsas == {"kThumb2", "kX86", "kMips", "kArm"}
====
