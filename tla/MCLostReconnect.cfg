SPECIFICATION AnsweredSpec
CONSTANTS
    r1 = r1
    r2 = r2
    p1 = p1
    p2 = p2
    NoRobot = NoRobot
    Robots <- MCRobots
    Ports <- MCPorts
PROPERTIES
    ReconfigureTakesEffect
CHECK_DEADLOCK FALSE
