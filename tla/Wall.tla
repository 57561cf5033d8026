--------------------------------- MODULE Wall ---------------------------------
(***************************************************************************)
(* Video walls: how the drivers turn the corners of a group of monitors    *)
(* into commands.  MCCKeyboardRC drives a wall with six monitors in a row, *)
(* by a frame and one command per monitor; MCCKeyboardJXJEn one with three *)
(* in a row, by the edges of a window in pixels.                           *)
(***************************************************************************)
EXTENDS Integers, Sequences

CONSTANT LastMonitor     \* the last monitor of the wall of MCCKeyboardRC

ASSUME WallAssumption == LastMonitor \in 1..99

VARIABLES
    leftUp, rightDown,   \* left_up_monitor_id and right_down_monitor_id
    camera               \* the local id of the camera

wallVars == <<leftUp, rightDown, camera>>
-----------------------------------------------------------------------------
\* Mutant: a row ends before its last monitor.
CellOfFive(m) ==
    LET cells[n \in 0..255] ==
            IF n < 6 THEN [row |-> 1, col |-> n]
                     ELSE [cells[n - 6] EXCEPT !.row = @ + 1]
    IN  cells[m % 256]

\* The loop that takes rows of six off the number of a monitor, which it holds
\* in an unsigned char.
Cell(m) ==
    LET cells[n \in 0..255] ==
            IF n <= 6 THEN [row |-> 1, col |-> n]
                      ELSE [cells[n - 6] EXCEPT !.row = @ + 1]
    IN  cells[m % 256]

\* The byte of a corner: the column and the row, four bits each.
Corner(cell) == (cell.col % 16) * 16 + (cell.row % 16)

\* Inputs up to 8 are video, the others are the VGA inputs from 1.
Source(cam) ==
    IF cam > 8 THEN [bank |-> "PA", input |-> cam - 8] ELSE [bank |-> "PV", input |-> cam]

\* buildPacketFromMessage of MCCKeyboardRC: nothing, or the frame of six bytes
\* and the commands of twelve.
BuildPin(cam, lu, rd) ==
    LET a == Cell(lu)
        b == Cell(rd)
        cols == b.col - a.col + 1
        rows == b.row - a.row + 1
        Command(n) == [source |-> Source(cam), monitor |-> lu + (n % cols) + 6 * (n \div cols)]
    IN  IF b.row < a.row \/ b.col < a.col
        THEN [length |-> 0, corners |-> <<>>, commands |-> <<>>]
        ELSE [length |-> 6 + 12 * rows * cols, corners |-> <<Corner(a), Corner(b)>>,
              commands |-> [n \in 1..(rows * cols) |-> Command(n - 1)]]

\* The size of buf in SendSwitch of MCCKeyboardRC.
BufferSize == 1024

Width == 1366
Height == 768

\* Mutant: the window ends where the last monitor begins.
WindowShort(lu, rd) ==
    [left |-> ((lu - 1) % 3) * Width, top |-> ((lu - 1) \div 3) * Height,
     right |-> ((rd - 1) % 3) * Width, bottom |-> ((rd - 1) \div 3) * Height]

\* getEdge and move of MCCKeyboardJXJEn.
Window(lu, rd) ==
    [left |-> ((lu - 1) % 3) * Width, top |-> ((lu - 1) \div 3) * Height,
     right |-> ((rd - 1) % 3) * Width + Width, bottom |-> ((rd - 1) \div 3) * Height + Height]

\* SendSwitch of MCCKeyboardJXJEn: a single monitor is a group, and cameras up
\* to 4 come through the matrix, in one of the four video windows.
SendSwitch(cam, lu, rd) ==
    [type |-> IF cam <= 4 THEN "VIDEO" ELSE "DVI",
     inport |-> IF cam > 4 THEN cam - 5 ELSE IF lu > 4 THEN 3 ELSE lu - 1,
     window |-> Window(lu, rd)]
-----------------------------------------------------------------------------
WallInit ==
    /\ leftUp \in 1..LastMonitor /\ rightDown \in 1..LastMonitor
    /\ camera \in {8, 9}
-----------------------------------------------------------------------------
\* Where a monitor hangs on a wall with that many in a row.
Row(m, columns) == (m - 1) \div columns
Column(m, columns) == (m - 1) % columns

\* The monitors of the rectangle with those corners.
Rectangle(lu, rd, columns, last) ==
    {m \in 1..last : /\ Row(m, columns) \in Row(lu, columns)..Row(rd, columns)
                     /\ Column(m, columns) \in Column(lu, columns)..Column(rd, columns)}

\* What MCCKeyboardRC sends fits its buffer and switches exactly the monitors
\* of the rectangle, each once, to the camera; the frame names its corners, and
\* with corners the wrong way round nothing is sent (buildPacketFromMessage).
PinFillsRectangle ==
    LET sent == BuildPin(camera, leftUp, rightDown)
        Named(byte) == ((byte % 16) - 1) * 6 + (byte \div 16)
    IN  /\ sent.length <= BufferSize
        /\ {sent.commands[n].monitor : n \in DOMAIN sent.commands}
              = Rectangle(leftUp, rightDown, 6, LastMonitor)
        /\ \A m, n \in DOMAIN sent.commands :
              sent.commands[m].monitor = sent.commands[n].monitor => m = n
        /\ sent.length > 0 =>
              Named(sent.corners[1]) = leftUp /\ Named(sent.corners[2]) = rightDown

\* The window MCCKeyboardJXJEn asks for holds exactly the monitors of the
\* rectangle (getEdge, move).
WindowFillsRectangle ==
    leftUp <= 9 /\ rightDown <= 9 =>
        LET w == SendSwitch(camera, leftUp, rightDown).window
        IN  Rectangle(leftUp, rightDown, 3, 9) =
                {m \in 1..9 :
                    /\ w.left <= Column(m, 3) * Width /\ (Column(m, 3) + 1) * Width <= w.right
                    /\ w.top <= Row(m, 3) * Height /\ (Row(m, 3) + 1) * Height <= w.bottom}
=============================================================================
