------------------------------- MODULE MCLoader -------------------------------
(* Source files for TLC: each instruction on its own, and every file of up *)
(* to five lines that declare and use two labels, with raw data and an     *)
(* offset between them, or up to four with lines that stop the parser.     *)
EXTENDS Loader, SequencesExt

Line(op, args, label) == [op |-> op, args |-> args, label |-> label]

ArgCount(op) ==
  CASE op \in rd_rs_rt \cup rd_rt_sa \cup rd_rt_rs \cup rt_rs_im \cup rt_im_rs \cup fd_fs_ft -> 3
    [] op \in rs_rt \cup rd_rs \cup rt_im \cup cp0_rt_rd \cup cp0_rd_rt \cup ft_fs \cup fd_fs
                \cup rs_rt_label \cup {"MOVE", "BLT"} -> 2
    [] op \in rs_only \cup rd_only \cup rs_label \cup {"LLA"} -> 1
    [] OTHER -> 0

(* Operands that use the high and the low bit of a register field.         *)
Example(op) == Line(op, SubSeq(<<9, 18, 25>>, 1, ArgCount(op)), "a")

SingleSources ==
  {<<Example(op), Line("label", <<>>, "a")>> : op \in Instructions \ {"LI"}}
    \cup {<<Line(op, <<9, 18, n>>, "a")>> :
            op \in {"ADDI", "SLL"}, n \in {-32769, -32768, -1, 31, 32, 65535, 65536}}
    \cup {<<Line("JALR", <<31, 18>>, "a")>>}
    \cup {<<Line(op, <<9, n, 18>>, "a")>> : op \in {"LW"}, n \in {-32769, -1, 65536}}
    \cup {<<Line("LUI", <<9, n>>, "a")>> : n \in {-1, 65536}}
    \cup {<<Line("LI", <<9, v>>, "a")>> : v \in {0, 1, 32768} \X {0, 1, 32767, 32768, 65535}}

LabelLines ==
  {Line("label", <<>>, l) : l \in Labels}
    \cup {Line("BEQ", <<1, 2>>, "a"), Line("J", <<>>, "b"), Line("LLA", <<3>>, "a"),
          Line(".dup", <<32767>>, "a"), Line(".offset", <<131072>>, "a"),
          Line(".offset", <<2>>, "a")}

StopLines == {Line(op, <<>>, "a") : op \in {"syntax error", "bad token"}}

MCLabels == {"a", "b"}
MCSources ==
  SingleSources \cup BoundedSeq(LabelLines, 5) \cup BoundedSeq(LabelLines \cup StopLines, 4)
===============================================================================
