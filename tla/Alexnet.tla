-------------------------------- MODULE Alexnet --------------------------------
(***************************************************************************)
(* The small network of test_progs/alexnet.c.  The arrays of main are      *)
(* never set to anything at first, every layer computes for itself how     *)
(* much of them it reads and writes, and two layers hand them to each      *)
(* other and back.  What is kept of an element is the round of main that   *)
(* wrote it last, 0 for none, and by which call.                           *)
(***************************************************************************)
EXTENDS Program, Integers

CONSTANT TEST_ITR   \* rounds

ASSUME AlexnetAssumption == TEST_ITR \in Nat \ {0}

Side == 0 .. 4       \* every array has five of everything
Cube == Side \X Side \X Side

\* The shapes that main sets up.
conv == [input_size |-> 5, kernel_size |-> 2, stride |-> 1, zero_pad |-> 0]
pool == [input_size |-> 4, kernel_size |-> 2, stride |-> 2, zero_pad |-> 0]

\* Mutation: the last place of the kernel is left out.
output_size_short(s) ==
  (s.input_size + 2 * s.zero_pad - s.kernel_size) \div 2 ^ s.stride

\* The stride is a number of bits here ...
output_size(s) ==
  (s.input_size + 2 * s.zero_pad - s.kernel_size) \div 2 ^ s.stride + 1

Outputs(s) == {c \in Cube : c[2] < output_size(s) /\ c[3] < output_size(s)}

\* ... and a number of places here.  Padding is not read.
Lines(s) ==
  {s.stride * o + k - s.zero_pad :
     o \in 0 .. output_size(s) - 1, k \in 0 .. s.kernel_size - 1}
    \cap 0 .. s.input_size - 1
Inputs(s) == {c \in Cube : c[2] \in Lines(s) /\ c[3] \in Lines(s)}

\* cnn_to_fc of a feature of one by one: a channel is an element.
Feature(c) == <<c, 0, 0>>

Nowhere == [itr |-> 0, by |-> "none"]
Mine(by) == [itr |-> st.itr, by |-> by]
Writes(arr, cells, by) ==
  [c \in DOMAIN arr |-> IF c \in cells THEN Mine(by) ELSE arr[c]]

AlexnetInit ==
  st = [code |-> "alexnet", at |-> "cnn_input_generator", itr |-> 1,
        cnn_inputs |-> [c \in Cube |-> Nowhere],
        cnn_outputs |-> [c \in Cube |-> Nowhere],
        cnn_weights |-> [c \in Cube |-> Nowhere],  \* of one input channel
        fc_inputs |-> [i \in Side |-> Nowhere],
        fc_weights |-> [i \in Side |-> Nowhere],   \* and the biases
        fc_outputs |-> [i \in Side |-> Nowhere],
        ghost |-> 0]

Then(s, next) == st' = [s EXCEPT !.at = next]

cnn_input_generator ==
  /\ At("alexnet", "cnn_input_generator")
  /\ Then([st EXCEPT !.cnn_inputs = Writes(@, Cube, "generator")],
                   "cnn_weight_generator")

cnn_weight_generator ==
  /\ At("alexnet", "cnn_weight_generator")
  /\ Then(
       [st EXCEPT !.cnn_weights =
          Writes(@, {c \in Cube : c[2] < conv.kernel_size
                                    /\ c[3] < conv.kernel_size}, "generator")],
       "cnn_layer")

cnn_layer ==
  /\ At("alexnet", "cnn_layer")
  /\ Then([st EXCEPT !.cnn_outputs = Writes(@, Outputs(conv), "layer")],
                   "cnn_pool")

cnn_pool ==
  /\ At("alexnet", "cnn_pool")
  /\ Then([st EXCEPT !.cnn_inputs = Writes(@, Outputs(pool), "pool")],
                   "cnn_to_fc")

cnn_to_fc ==
  /\ At("alexnet", "cnn_to_fc")
  /\ Then([st EXCEPT !.fc_inputs = Writes(@, Side, "conversion")],
                   "fc_input_generator")

fc_input_generator ==
  /\ At("alexnet", "fc_input_generator")
  /\ Then([st EXCEPT !.fc_inputs = Writes(@, Side, "generator")],
                   "fc_weight_generator")

fc_weight_generator ==
  /\ At("alexnet", "fc_weight_generator")
  /\ Then([st EXCEPT !.fc_weights = Writes(@, Side, "generator")],
                   "fc_layer")

fc_layer ==
  /\ At("alexnet", "fc_layer")
  /\ Then([st EXCEPT !.fc_outputs = Writes(@, Side, "layer"),
                              !.itr = @ + 1],
                   IF st.itr = TEST_ITR THEN "end" ELSE "cnn_input_generator")

AlexnetNext ==
  \/ cnn_input_generator \/ cnn_weight_generator \/ cnn_layer \/ cnn_pool
  \/ cnn_to_fc \/ fc_input_generator \/ fc_weight_generator \/ fc_layer

-----------------------------------------------------------------------------
\* A layer reads only what the call before it has written in the same round,
\* not what was there before: the pool takes from the part of its input that
\* the convolution fills, although main gives it a larger size, and the
\* conversion from the one place the pool fills, not from the input of the
\* convolution around it.
ReadsWhatThisRoundWrote ==
  /\ At("alexnet", "cnn_layer") =>
       /\ \A c \in Inputs(conv) : st.cnn_inputs[c] = Mine("generator")
       /\ \A o \in Side, i, j \in 0 .. conv.kernel_size - 1 :
            st.cnn_weights[<<o, i, j>>] = Mine("generator")
  /\ At("alexnet", "cnn_pool") =>
       \A c \in Inputs(pool) : st.cnn_outputs[c] = Mine("layer")
  /\ At("alexnet", "cnn_to_fc") =>
       \A i \in Side : st.cnn_inputs[Feature(i)] = Mine("pool")
  /\ At("alexnet", "fc_layer") =>
       \A i \in Side : /\ st.fc_inputs[i] = Mine("generator")
                       /\ st.fc_weights[i] = Mine("generator")
=============================================================================
