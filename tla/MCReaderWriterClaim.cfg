SPECIFICATION ClientSpec
CONSTANTS
    Threads = {r1, r2, w1}
    Writers = {w1}
    Loops = 1
PROPERTY WriterEntersNext
