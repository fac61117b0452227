SPECIFICATION ClientSpec
CONSTANTS
    Threads = {r1, r2, w1, w2}
    Writers = {w1, w2}
    Loops = 1
PROPERTIES BoundedOvertaking WriterEnters
